---- MODULE Spec2Model ----
(***************************************************************************)
(* A model of the Confluence HTML -> Markdown converter                    *)
(* (ahzs645/confluence-converter-ui).                                      *)
(*                                                                         *)
(* Texts are sequences of characters.  Every character an operation of     *)
(* the program looks at (white space, "|", "\\", "#", "-", "*", "+", ">",  *)
(* ":", the double quote, ...) is one element of the sequence; a run of    *)
(* letters that no operation looks inside (such as Version) is written as  *)
(* one element and behaves as one letter.                                  *)
(***************************************************************************)
EXTENDS Integers, Sequences, FiniteSets, TLC

VARIABLES
  elem,        \* the element the sub-converters are invoked on
  variant,     \* which of the two TableProcessor sources is loaded (1 or 2)
  options,     \* the ConversionOptions of the processors and the converter
  tableSeen,   \* TableProcessor.processedElements
  panelSeen,   \* PanelProcessor.processedElements
  out,         \* the value returned by the last sub-converter invocation
  last,        \* the last invocation: [op, again, renderer]
  emitted,     \* the row strings the last standard-table rendering emitted
  invoked,     \* the processors that have been invoked on elem
  html,        \* the input of convert
  convSeen,    \* EnhancedConfluenceConverter.processedElements
  result,      \* the outcome of the last convert call
  input,       \* the input of a text or metadata function
  output,      \* the result of the text or metadata function
  passes,      \* how many times the text function has been applied
  calls,       \* how many times convert has been called on the converter
  editorState, \* the state and the pending effects of the ConfluenceEditor
  basicState   \* the call stack of the basic ConfluenceConverter in processContent

vars == <<elem, variant, options, tableSeen, panelSeen, out, last, emitted,
          invoked, html, convSeen, result, input, output, passes, calls,
          editorState, basicState>>

----------------------------------------------------------------------------
(* Bounds of the model.                                                    *)

\* the most rows a table of the model has
MaxRows == 2

\* the most pieces a markdown text handed to cleanupMarkdown is made of
MaxPieces == 4

\* the most times cleanupMarkdown is applied in a row
MaxPasses == 2

\* the most times convert is called on one converter
MaxCalls == 2

----------------------------------------------------------------------------
(* Text helpers: the JavaScript string operations the program uses.        *)

NL == "\n"

WhiteSpace == {" ", NL, "\t"}

RECURSIVE Flatten(_)
Flatten(ss) == IF ss = <<>> THEN <<>> ELSE Head(ss) \o Flatten(Tail(ss))

RECURSIVE TrimStart(_)
TrimStart(s) ==
  IF s # <<>> /\ Head(s) \in WhiteSpace THEN TrimStart(Tail(s)) ELSE s

RECURSIVE TrimEnd(_)
TrimEnd(s) ==
  IF s # <<>> /\ s[Len(s)] \in WhiteSpace
  THEN TrimEnd(SubSeq(s, 1, Len(s) - 1)) ELSE s

\* String.prototype.trim
Trim(s) == TrimEnd(TrimStart(s))

\* String.prototype.toLowerCase, on the letters the model's texts use
LowerChar(c) ==
  CASE c = "Version"   -> "version"
    [] c = "Published" -> "published"
    [] c = "Changed"   -> "changed"
    [] c = "By"        -> "by"
    [] c = "Comment"   -> "comment"
    [] c = "V"         -> "v"
    [] OTHER           -> c

ToLower(s) == [i \in 1..Len(s) |-> LowerChar(s[i])]

\* s.replace(/c/g, r) for a single character c
RECURSIVE ReplaceChar(_, _, _)
ReplaceChar(s, c, r) ==
  IF s = <<>> THEN <<>>
  ELSE (IF Head(s) = c THEN r ELSE <<Head(s)>>) \o ReplaceChar(Tail(s), c, r)

\* content.replace(/\|/g, '\\|')
EscapePipes(s) == ReplaceChar(s, "|", <<"\\", "|">>)

\* text.replace(/\n/g, ' ')
NewlinesToSpaces(s) == ReplaceChar(s, NL, <<" ">>)

\* Array.prototype.join
RECURSIVE Join(_, _)
Join(ss, sep) ==
  IF ss = <<>> THEN <<>>
  ELSE IF Len(ss) = 1 THEN ss[1]
  ELSE ss[1] \o sep \o Join(Tail(ss), sep)

\* '#'.repeat(n), Array(n).fill(x)
RECURSIVE Repeat(_, _)
Repeat(s, n) == IF n <= 0 THEN <<>> ELSE s \o Repeat(s, n - 1)

Max(a, b) == IF a >= b THEN a ELSE b

SeqRange(s) == {s[i] : i \in 1..Len(s)}

----------------------------------------------------------------------------
(* The DOM, as far as the program queries it.                              *)
(*                                                                         *)
(* An element is a record.  A table has rows (in table.rows order: the     *)
(* rows of a thead first), a row has cells, a cell has child nodes, and a  *)
(* child node has a tag, its text content and the set of tags of the       *)
(* elements nested inside it.  anc is the chain of ancestors, nearest    *)
(* first, each with its id and classes.  The identity of an element (what  *)
(* a Set or WeakSet of elements holds) is a tuple: ref for the element,  *)
(* ref \o <<i>> for its i-th row, ref \o <<i, j>> for that row's j-th      *)
(* cell, ref \o <<"content">> for a panel's body element.                  *)

\* inner holds the selectors, beyond its own tag name, that the element or
\* one of its descendants matches; attr is its href or src, alt its alt
NodeA(tag, txt, inner, attr, alt) ==
  [tag |-> tag, text |-> txt, inner |-> inner, attr |-> attr, alt |-> alt]

Node(tag, txt, inner) == NodeA(tag, txt, inner, <<>>, <<>>)

TextNode(txt) == Node("#text", txt, {})

Cell(tag, nodes) == [tag |-> tag, nodes |-> nodes]

Row(section, cells) == [section |-> section, cells |-> cells]

RowRef(ref, i) == ref \o <<i>>

CellRef(ref, i, j) == ref \o <<i, j>>

ContentRef(ref) == ref \o <<"content">>

\* Element.textContent of a cell, a row, a table
CellText(cell) == Flatten([i \in 1..Len(cell.nodes) |-> cell.nodes[i].text])

RowText(row) == Flatten([j \in 1..Len(row.cells) |-> CellText(row.cells[j])])

TableText(t) == Flatten([i \in 1..Len(t.rows) |-> RowText(t.rows[i])])

\* cell.querySelector(<a list of tag or class selectors>) !== null
CellHas(cell, sel) ==
  \E i \in 1..Len(cell.nodes) :
    cell.nodes[i].tag \in sel \/ cell.nodes[i].inner \cap sel # {}

\* cell.querySelectorAll(tag).length
CellCount(cell, tag) ==
  Cardinality({i \in 1..Len(cell.nodes) : cell.nodes[i].tag = tag})
  + Cardinality({i \in 1..Len(cell.nodes) : tag \in cell.nodes[i].inner})

\* String.prototype.length of a text: the letters of a word count
CharLen(c) ==
  CASE c = "Version"   -> 7
    [] c = "Published" -> 9
    [] c = "Changed"   -> 7
    [] c = "By"        -> 2
    [] c = "Comment"   -> 7
    [] c = "a word of a hundred letters" -> 100
    [] OTHER           -> 1

RECURSIVE TextLen(_)
TextLen(s) == IF s = <<>> THEN 0 ELSE CharLen(Head(s)) + TextLen(Tail(s))

\* String.prototype.includes on an element id
IdIncludes(id, needle) ==
  CASE needle = "history" -> id \in {"page-history", "history-list", "page-history-container"}
    [] needle = "version" -> id \in {"version-box"}
    [] OTHER              -> FALSE

IsTableElement(e) == e.tag = "table"

AllCells(t) ==
  UNION {{<<i, j>> : j \in 1..Len(t.rows[i].cells)} : i \in 1..Len(t.rows)}

\* the first child node of a cell that is, or holds, a match of sel
FirstMatch(cell, sel) ==
  LET hits == {i \in 1..Len(cell.nodes) :
                 cell.nodes[i].tag \in sel \/ cell.nodes[i].inner \cap sel # {}}
  IN cell.nodes[CHOOSE i \in hits : \A k \in hits : i <= k]

\* x || y on strings
OrElse(x, y) == IF x # <<>> THEN x ELSE y

----------------------------------------------------------------------------
(* ElementDetector                                                         *)

LayoutClasses == {"layout", "contentLayoutTable", "layout-table"}

LayoutContainers == {"contentLayout2", "columnLayout", "section", "panelContent"}

\* table.closest('.contentLayout2, .columnLayout, .section, .panelContent')
InLayoutContainer(t) ==
  \/ t.classes \cap LayoutContainers # {}
  \/ \E k \in 1..Len(t.anc) : t.anc[k].classes \cap LayoutContainers # {}

isLayoutTable(t) ==
  IF ~IsTableElement(t) THEN FALSE
  ELSE IF t.classes \cap LayoutClasses # {} THEN TRUE
  ELSE IF InLayoutContainer(t)
          /\ (t.border = "0" \/ (t.border \in {"absent", ""} /\ t.borderStyle = "none"))
       THEN TRUE
  ELSE IF Len(t.rows) = 1
          /\ Len(t.rows[1].cells) = 1
          /\ CellHas(t.rows[1].cells[1], {"div", "table", "ul", "ol", "p"})
       THEN TRUE
  ELSE "wysiwyg-macro" \in t.classes

\* mutant: the header texts compared without lower-casing them
HeaderTexts_CaseSensitive(t) ==
  {Trim(CellText(t.rows[c[1]].cells[c[2]])) :
     c \in {d \in AllCells(t) :
              \/ t.rows[d[1]].cells[d[2]].tag = "th"
              \/ t.rows[d[1]].section = "thead"}}

\* table.querySelectorAll('th, thead td') mapped to trimmed lower-case text
HeaderTexts(t) ==
  {ToLower(Trim(CellText(t.rows[c[1]].cells[c[2]]))) :
     c \in {d \in AllCells(t) :
              \/ t.rows[d[1]].cells[d[2]].tag = "th"
              \/ t.rows[d[1]].section = "thead"}}

HistoryByMarker(t) == t.id = "page-history-container" \/ "tableview" \in t.classes

HistoryByHeaders(t) ==
  LET headers == HeaderTexts(t) IN
    /\ (<<"version">> \in headers \/ <<"v", ".">> \in headers)
    /\ (<<"changed", " ", "by">> \in headers \/ <<"published">> \in headers)

HistoryByAncestor(t) ==
  \E k \in 1..Len(t.anc) :
    \/ (t.anc[k].id # "" /\ (IdIncludes(t.anc[k].id, "history")
                             \/ IdIncludes(t.anc[k].id, "version")))
    \/ "history" \in t.anc[k].classes
    \/ "expand-content" \in t.anc[k].classes

isHistoryTable(t) ==
  IF HistoryByMarker(t) THEN TRUE
  ELSE IF HistoryByHeaders(t) THEN TRUE
  ELSE HistoryByAncestor(t)

ComplexTags ==
  {"h1", "h2", "h3", "h4", "h5", "h6", "img", "ul", "ol", "table",
   ".panel", ".confluence-information-macro"}

isComplexTableCell(cell) ==
  IF CellHas(cell, ComplexTags) THEN TRUE
  ELSE IF CellCount(cell, "p") > 1 THEN TRUE
  ELSE IF CellCount(cell, "br") >= 1 /\ CellCount(cell, "br") + 1 > 2 THEN TRUE
  ELSE TextLen(Trim(CellText(cell))) > 100

isComplexTable(t) ==
  \E c \in AllCells(t) : isComplexTableCell(t.rows[c[1]].cells[c[2]])

IgnoredTags == {"script", "style", "noscript", "button"}

\* child nodes carry the outcome of the attribute, style, class and id tests
\* of shouldBeIgnored in the tag "hidden"
shouldBeIgnored(node) == node.tag \in IgnoredTags \/ node.tag = "hidden"

HeadingLevel(tag) ==
  CASE tag = "h1" -> 1 [] tag = "h2" -> 2 [] tag = "h3" -> 3
    [] tag = "h4" -> 4 [] tag = "h5" -> 5 [] tag = "h6" -> 6 [] OTHER -> 0

\* The loop over childNodes that processLayoutTable, processPanel and
\* processExpandMacro share
RECURSIVE BlockContent(_)
BlockContent(nodes) ==
  IF nodes = <<>> THEN <<>>
  ELSE LET n == Head(nodes)
           piece ==
             IF n.tag = "#text" THEN n.text
             ELSE IF shouldBeIgnored(n) THEN <<>>
             ELSE IF n.tag = "br" THEN <<NL>>
             ELSE IF n.tag = "p" THEN Trim(n.text) \o <<NL, NL>>
             ELSE IF HeadingLevel(n.tag) > 0
                  THEN Repeat(<<"#">>, HeadingLevel(n.tag)) \o <<" ">>
                       \o Trim(n.text) \o <<NL, NL>>
             ELSE Trim(n.text) \o <<NL>>
       IN piece \o BlockContent(Tail(nodes))

----------------------------------------------------------------------------
(* TableProcessor (src/utils/TableProcessor.ts).  Every renderer takes the *)
(* set of processed elements and returns the markdown with the new set.    *)

Ret(md, seen) == [out |-> md, seen |-> seen]

HistoryHeaders ==
  << <<"Version">>, <<"Published">>, <<"Changed", " ", "By">>, <<"Comment">> >>

Dashes == <<"-", "-", "-">>

MdLink(txt, href) == <<"[">> \o txt \o <<"]", "(">> \o href \o <<")">>

\* .replace(/\n/g, ' ').replace(/\|/g, '\\|')
CleanCellText(s) == EscapePipes(NewlinesToSpaces(s))

TdCells(row) == SelectSeq(row.cells, LAMBDA c : c.tag = "td")

versionText(cell) ==
  LET plain == Trim(CellText(cell)) IN
    IF CellHas(cell, {"a"})
    THEN LET versionLink == FirstMatch(cell, {"a"}) IN
           MdLink(OrElse(Trim(versionLink.text), plain), versionLink.attr)
    ELSE CleanCellText(plain)

ContributorSel == {".page-history-contributor-name a", ".page-history-contributor-name span"}

changedByText(cell) ==
  LET icon ==
        IF CellHas(cell, {"img.userLogo"})
        THEN LET userIcon == FirstMatch(cell, {"img.userLogo"}) IN
               <<"!">> \o MdLink(OrElse(userIcon.alt, <<"User">>), userIcon.attr) \o <<" ">>
        ELSE <<>>
      name ==
        IF CellHas(cell, ContributorSel)
        THEN LET userName == FirstMatch(cell, ContributorSel) IN
               IF ".page-history-contributor-name a" \in userName.inner
               THEN MdLink(Trim(userName.text), userName.attr)
               ELSE Trim(userName.text)
        ELSE CleanCellText(Trim(CellText(cell)))
  IN icon \o name

historyRowMarkdown(cells) ==
  <<"|", " ">> \o versionText(cells[1]) \o <<" ", "|", " ">>
  \o CleanCellText(Trim(CellText(cells[2]))) \o <<" ", "|", " ">>
  \o changedByText(cells[3]) \o <<" ", "|", " ">>
  \o CleanCellText(IF Len(cells) > 3 THEN Trim(CellText(cells[4])) ELSE <<>>)
  \o <<" ", "|", NL>>

\* table.querySelectorAll('tbody tr, tr:not(:first-child)')
HistoryRowSelected(t, i) == t.rows[i].section = "tbody" \/ i > 1

RECURSIVE historyRows(_, _, _, _, _)
historyRows(t, ref, i, seen, md) ==
  IF i > Len(t.rows) THEN Ret(md \o <<NL>>, seen)
  ELSE IF ~HistoryRowSelected(t, i) \/ RowRef(ref, i) \in seen
       THEN historyRows(t, ref, i + 1, seen, md)
  ELSE LET cells == TdCells(t.rows[i])
           seen1 == seen \cup {RowRef(ref, i)}
       IN IF Len(cells) < 3 THEN historyRows(t, ref, i + 1, seen1, md)
          ELSE historyRows(t, ref, i + 1, seen1, md \o historyRowMarkdown(cells))

processHistoryTable(t, ref, seen) ==
  historyRows(t, ref, 1, seen,
    <<NL, "#", "#", "#", " ", "Page", " ", "History", NL, NL>>
    \o <<"|", " ">> \o Join(HistoryHeaders, <<" ", "|", " ">>) \o <<" ", "|", NL>>
    \o <<"|">> \o Join([k \in 1..Len(HistoryHeaders) |-> Dashes], <<"|">>) \o <<"|", NL>>)

RECURSIVE layoutCells(_, _, _, _, _, _)
layoutCells(t, ref, i, j, seen, md) ==
  IF j > Len(t.rows[i].cells) THEN Ret(md, seen)
  ELSE IF CellRef(ref, i, j) \in seen THEN layoutCells(t, ref, i, j + 1, seen, md)
  ELSE LET cellContent == BlockContent(t.rows[i].cells[j].nodes) IN
         layoutCells(t, ref, i, j + 1, seen \cup {CellRef(ref, i, j)},
           IF Trim(cellContent) # <<>> THEN md \o Trim(cellContent) \o <<NL, NL>> ELSE md)

RECURSIVE layoutRows(_, _, _, _, _)
layoutRows(t, ref, i, seen, md) ==
  IF i > Len(t.rows) THEN Ret(md, seen)
  ELSE IF RowRef(ref, i) \in seen THEN layoutRows(t, ref, i + 1, seen, md)
  ELSE LET r == layoutCells(t, ref, i, 1, seen \cup {RowRef(ref, i)}, md) IN
         layoutRows(t, ref, i + 1, r.seen, r.out)

processLayoutTable(t, ref, seen) == layoutRows(t, ref, 1, seen, <<>>)

\* cell.innerHTML.replace(/<br\s*\/?>/gi, '\n')
\*   .replace(/<p>(.*?)<\/p>/gi, '$1\n\n').replace(/<\/?[^>]+(>|$)/g, '')
\* (paragraphs are written without attributes; "." does not match a newline)
RECURSIVE StrippedHtml(_)
StrippedHtml(nodes) ==
  IF nodes = <<>> THEN <<>>
  ELSE LET n == Head(nodes)
           piece ==
             IF n.tag = "br" THEN <<NL>>
             ELSE IF n.tag = "p" /\ NL \notin SeqRange(n.text) THEN n.text \o <<NL, NL>>
             ELSE n.text
       IN piece \o StrippedHtml(Tail(nodes))

RECURSIVE complexCells(_, _, _, _, _, _)
complexCells(t, ref, i, j, seen, md) ==
  IF j > Len(t.rows[i].cells) THEN Ret(md, seen)
  ELSE IF CellRef(ref, i, j) \in seen THEN complexCells(t, ref, i, j + 1, seen, md)
  ELSE LET content == StrippedHtml(t.rows[i].cells[j].nodes) IN
         complexCells(t, ref, i, j + 1, seen \cup {CellRef(ref, i, j)},
           IF Trim(content) # <<>> THEN md \o Trim(content) \o <<NL, NL>> ELSE md)

RECURSIVE complexRows(_, _, _, _, _)
complexRows(t, ref, i, seen, md) ==
  IF i > Len(t.rows) THEN Ret(md, seen)
  ELSE IF RowRef(ref, i) \in seen THEN complexRows(t, ref, i + 1, seen, md)
  ELSE LET seen1 == seen \cup {RowRef(ref, i)}
           cells == t.rows[i].cells
       IN IF Len(cells) = 0 THEN complexRows(t, ref, i + 1, seen1, md)
          ELSE LET sectionTitle == Trim(CellText(cells[1]))
                   md1 == IF sectionTitle # <<>>
                          THEN md \o <<"#", "#", " ">> \o sectionTitle \o <<NL, NL>>
                          ELSE md
                   r == complexCells(t, ref, i, 2, seen1, md1)
               IN complexRows(t, ref, i + 1, r.seen, r.out)

processComplexTable(t, ref, seen) == complexRows(t, ref, 1, seen, <<NL>>)

\* Math.max(...rows.map(row => row.cells.length))
RECURSIVE MaxCellCount(_)
MaxCellCount(rows) ==
  IF rows = <<>> THEN 0 ELSE Max(Len(Head(rows).cells), MaxCellCount(Tail(rows)))

\* mutant: the pipes of the cell text are left as they are
githubCellContent_NoEscape(cell) ==
  LET content == Trim(CellText(cell)) IN
    IF CellHas(cell, {"strong", "b"}) THEN <<"*", "*">> \o content \o <<"*", "*">>
    ELSE IF CellHas(cell, {"em", "i"}) THEN <<"*">> \o content \o <<"*">>
    ELSE content

githubCellContent(cell) ==
  LET content == Trim(CellText(cell))
      styled == IF CellHas(cell, {"strong", "b"}) THEN <<"*", "*">> \o content \o <<"*", "*">>
                ELSE IF CellHas(cell, {"em", "i"}) THEN <<"*">> \o content \o <<"*">>
                ELSE content
  IN EscapePipes(styled)

\* mutant: a short row is not padded
RECURSIVE githubRowMarkdown_NoPadding(_, _, _)
githubRowMarkdown_NoPadding(cells, i, maxCells) ==
  IF i > Len(cells) THEN <<>>
  ELSE <<" ">> \o EscapePipes(Trim(CellText(cells[i]))) \o <<" ", "|">>
       \o githubRowMarkdown_NoPadding(cells, i + 1, maxCells)

RECURSIVE githubRowMarkdown(_, _, _)
githubRowMarkdown(cells, i, maxCells) ==
  IF i > maxCells THEN <<>>
  ELSE (IF i <= Len(cells)
        THEN <<" ">> \o githubCellContent(cells[i]) \o <<" ", "|">>
        ELSE <<" ", "|">>)
       \o githubRowMarkdown(cells, i + 1, maxCells)

githubSeparator(maxCells) ==
  <<"|">> \o Join([k \in 1..maxCells |-> Dashes], <<"|">>) \o <<"|", NL>>

githubRowCells(ref, i, n) == {CellRef(ref, i, j) : j \in 1..n}

\* rows collects the row strings as they are emitted
RECURSIVE githubRows(_, _, _, _, _, _, _)
githubRows(t, ref, i, maxCells, seen, md, rows) ==
  IF i > Len(t.rows) THEN [out |-> md \o <<NL>>, seen |-> seen, rows |-> rows]
  ELSE IF RowRef(ref, i) \in seen
       THEN githubRows(t, ref, i + 1, maxCells, seen, md, rows)
  ELSE LET cells == t.rows[i].cells
           isHeader == i = 1 \/ \E j \in 1..Len(cells) : cells[j].tag = "th"
           rowMarkdown == <<"|">> \o githubRowMarkdown(cells, 1, maxCells)
           seen1 == seen \cup {RowRef(ref, i)} \cup githubRowCells(ref, i, Len(cells))
           md1 == md \o rowMarkdown \o <<NL>>
                  \o (IF isHeader THEN githubSeparator(maxCells) ELSE <<>>)
       IN githubRows(t, ref, i + 1, maxCells, seen1, md1, Append(rows, rowMarkdown))

processGithubTable(t, ref, seen) ==
  IF Len(t.rows) = 0 THEN [out |-> <<>>, seen |-> seen, rows |-> <<>>]
  ELSE IF MaxCellCount(t.rows) = 0 THEN [out |-> <<>>, seen |-> seen, rows |-> <<>>]
  ELSE githubRows(t, ref, 1, MaxCellCount(t.rows), seen, <<NL>>, <<>>)

\* The result of processTable: the markdown, the new processed set, which
\* renderer produced it and the row strings of a standard table
TableRet(r, renderer) ==
  [out |-> r.out, seen |-> r.seen, renderer |-> renderer,
   rows |-> IF renderer = "github" THEN r.rows ELSE <<>>]

\* mutant: the layout test comes before the history test
processTable_LayoutFirst(t, ref, seen) ==
  IF ref \in seen THEN TableRet(Ret(<<>>, seen), "skipped")
  ELSE LET seen1 == seen \cup {ref} IN
    IF ~IsTableElement(t) THEN TableRet(Ret(<<>>, seen1), "none")
    ELSE IF isLayoutTable(t) THEN TableRet(processLayoutTable(t, ref, seen1), "layout")
    ELSE IF isHistoryTable(t) THEN TableRet(processHistoryTable(t, ref, seen1), "history")
    ELSE IF isComplexTable(t) THEN TableRet(processComplexTable(t, ref, seen1), "complex")
    ELSE TableRet(processGithubTable(t, ref, seen1), "github")

processTable(t, ref, seen) ==
  IF ref \in seen THEN TableRet(Ret(<<>>, seen), "skipped")
  ELSE LET seen1 == seen \cup {ref} IN
    IF ~IsTableElement(t) THEN TableRet(Ret(<<>>, seen1), "none")
    ELSE IF isHistoryTable(t) THEN TableRet(processHistoryTable(t, ref, seen1), "history")
    ELSE IF isLayoutTable(t) THEN TableRet(processLayoutTable(t, ref, seen1), "layout")
    ELSE IF isComplexTable(t) THEN TableRet(processComplexTable(t, ref, seen1), "complex")
    ELSE TableRet(processGithubTable(t, ref, seen1), "github")

----------------------------------------------------------------------------
(* The second TableProcessor source (in src/utils/ElementDetector.ts,      *)
(* lines 707-1022): the processed set is the one handed to the             *)
(* constructor, and cells are rendered through TurndownService.            *)

processHistoryTable2(t, ref, seen) == processHistoryTable(t, ref, seen)

processLayoutTable2(t, ref, seen) == processLayoutTable(t, ref, seen)

RECURSIVE complexCells2(_, _, _)
complexCells2(cells, j, md) ==
  IF j > Len(cells) THEN md
  ELSE complexCells2(cells, j + 1, md \o Trim(CellText(cells[j])) \o <<NL, NL>>)

RECURSIVE complexRows2(_, _, _, _, _)
complexRows2(t, ref, i, seen, md) ==
  IF i > Len(t.rows) THEN Ret(md, seen)
  ELSE IF RowRef(ref, i) \in seen THEN complexRows2(t, ref, i + 1, seen, md)
  ELSE LET seen1 == seen \cup {RowRef(ref, i)}
           cells == t.rows[i].cells
       IN IF Len(cells) = 0 THEN complexRows2(t, ref, i + 1, seen1, md)
          ELSE LET sectionTitle == Trim(CellText(cells[1]))
                   md1 == IF sectionTitle # <<>>
                          THEN md \o <<"#", "#", " ">> \o sectionTitle \o <<NL, NL>>
                          ELSE md
               IN complexRows2(t, ref, i + 1, seen1, complexCells2(cells, 2, md1))

processComplexTable2(t, ref, seen) == complexRows2(t, ref, 1, seen, <<NL>>)

\* TurndownService.turndown on the inner HTML of a cell: the inline rules of
\* the library (strong, em, br, p, a, img; other elements give their text)
RECURSIVE turndownInline(_)
turndownInline(nodes) ==
  IF nodes = <<>> THEN <<>>
  ELSE LET n == Head(nodes)
           piece ==
             CASE n.tag \in {"strong", "b"} -> <<"*", "*">> \o n.text \o <<"*", "*">>
               [] n.tag \in {"em", "i"}     -> <<"_">> \o n.text \o <<"_">>
               [] n.tag = "br"              -> <<" ", " ", NL>>
               [] n.tag = "p"               -> <<NL, NL>> \o n.text \o <<NL, NL>>
               [] n.tag = "a"               -> MdLink(n.text, n.attr)
               [] n.tag = "img"             -> <<"!">> \o MdLink(n.alt, n.attr)
               [] n.tag \in IgnoredTags     -> <<>>
               [] OTHER                     -> n.text
       IN piece \o turndownInline(Tail(nodes))

\* s.replace(/\n+/g, ' ')
RECURSIVE NewlineRunsToSpace(_)
NewlineRunsToSpace(s) ==
  IF s = <<>> THEN <<>>
  ELSE IF Head(s) = NL
       THEN IF Len(s) > 1 /\ s[2] = NL THEN NewlineRunsToSpace(Tail(s))
            ELSE <<" ">> \o NewlineRunsToSpace(Tail(s))
  ELSE <<Head(s)>> \o NewlineRunsToSpace(Tail(s))

githubCellContent2(cell) ==
  EscapePipes(Trim(NewlineRunsToSpace(Trim(turndownInline(cell.nodes)))))

RECURSIVE githubRowMarkdown2(_, _, _)
githubRowMarkdown2(cells, i, maxCells) ==
  IF i > maxCells THEN <<>>
  ELSE (IF i <= Len(cells)
        THEN <<" ">> \o githubCellContent2(cells[i]) \o <<" ", "|">>
        ELSE <<" ", " ", "|">>)
       \o githubRowMarkdown2(cells, i + 1, maxCells)

githubSeparator2(maxCells) ==
  <<"|">> \o Repeat(<<" ">> \o Dashes \o <<" ", "|">>, maxCells) \o <<NL>>

RECURSIVE githubRows2(_, _, _, _, _, _, _, _)
githubRows2(t, ref, i, maxCells, headerProcessed, seen, md, rows) ==
  IF i > Len(t.rows) THEN [out |-> md \o <<NL>>, seen |-> seen, rows |-> rows]
  ELSE LET cells == t.rows[i].cells
           isHeaderRow == Len(cells) > 0 /\ cells[1].tag = "th" /\ ~headerProcessed
           rowMarkdown == <<"|">> \o githubRowMarkdown2(cells, 1, maxCells)
           md1 == md \o rowMarkdown \o <<NL>>
                  \o (IF isHeaderRow THEN githubSeparator2(maxCells) ELSE <<>>)
       IN githubRows2(t, ref, i + 1, maxCells, headerProcessed \/ isHeaderRow,
                      seen \cup githubRowCells(ref, i, Len(cells)), md1,
                      Append(rows, rowMarkdown))

processGithubTable2(t, ref, seen) ==
  IF ref \in seen THEN [out |-> <<>>, seen |-> seen, rows |-> <<>>]
  ELSE IF Len(t.rows) = 0 THEN [out |-> <<>>, seen |-> seen \cup {ref}, rows |-> <<>>]
  ELSE githubRows2(t, ref, 1, MaxCellCount(t.rows), FALSE, seen \cup {ref}, <<NL>>, <<>>)

processTable2(t, ref, seen) ==
  IF ref \in seen THEN TableRet(Ret(<<>>, seen), "skipped")
  ELSE LET seen1 == seen \cup {ref} IN
    IF ~IsTableElement(t) THEN TableRet(Ret(<<>>, seen1), "none")
    ELSE IF isHistoryTable(t) THEN TableRet(processHistoryTable2(t, ref, seen1), "history")
    ELSE IF isLayoutTable(t) THEN TableRet(processLayoutTable2(t, ref, seen1), "layout")
    ELSE IF isComplexTable(t) THEN TableRet(processComplexTable2(t, ref, seen1), "complex")
    ELSE TableRet(processGithubTable2(t, ref, seen1), "github")

----------------------------------------------------------------------------
(* PanelProcessor (in src/utils/ElementDetector.ts, lines 428-706).        *)
(*                                                                         *)
(* A panel or macro element has an optional header element (header, with *)
(* its class), other child nodes (nodes) and an optional body element    *)
(* (body, with its class and its own child nodes), in that order.  The   *)
(* header of an expand macro, .expand-control-text, sits inside the        *)
(* .expand-control element.                                                *)

TitleClasses == {"panelHeader", "panel-header", "aui-message-header"}

ContentClasses == {"panelContent", "panel-body", "aui-message-content"}

NodesText(nodes) == Flatten([i \in 1..Len(nodes) |-> nodes[i].text])

\* Element.textContent of a panel or macro element
ElementText(e) ==
  (IF e.header.present THEN e.header.text ELSE <<>>)
  \o NodesText(e.nodes)
  \o (IF e.body.present THEN NodesText(e.body.nodes) ELSE <<>>)

\* panel.childNodes without the title element
PanelChildren(e) ==
  (IF ~e.header.present \/ e.header.cls \in TitleClasses THEN <<>>
   ELSE IF e.header.cls = "expand-control-text"
        THEN <<Node("hidden", e.header.text, {".expand-control"})>>
   ELSE <<Node("div", e.header.text, {})>>)
  \o e.nodes
  \o (IF e.body.present THEN <<Node("div", NodesText(e.body.nodes), {})>> ELSE <<>>)

\* String.prototype.toUpperCase on a panel type
UpperChar(c) ==
  CASE c = "info" -> "INFO" [] c = "note" -> "NOTE" [] c = "warning" -> "WARNING"
    [] c = "tip" -> "TIP" [] c = "code" -> "CODE" [] c = "jira" -> "JIRA"
    [] c = "expand" -> "EXPAND" [] c = "toc" -> "TOC" [] c = "status" -> "STATUS"
    [] OTHER -> c

ToUpper(s) == [i \in 1..Len(s) |-> UpperChar(s[i])]

getPanelType(panel) ==
  IF panel.macroName # "" THEN <<panel.macroName>>
  ELSE IF panel.classes \cap {"note", "confluence-information-macro-note"} # {}
       THEN <<"note">>
  ELSE IF panel.classes \cap {"warning", "confluence-information-macro-warning"} # {}
       THEN <<"warning">>
  ELSE IF panel.classes \cap {"tip", "confluence-information-macro-tip"} # {}
       THEN <<"tip">>
  ELSE IF panel.classes \cap {"code", "confluence-information-macro-code"} # {}
       THEN <<"code">>
  ELSE <<"info">>

\* content.replace(/\n/g, '\n> ')
QuoteLines(s) == ReplaceChar(s, NL, <<NL, ">", " ">>)

panelStyles(style, title, content, type) ==
  LET formattedTitle == OrElse(title, ToUpper(type)) IN
    CASE style = "blockquote" ->
           <<">", " ", "*", "*">> \o formattedTitle \o <<"*", "*", NL, ">", " ">>
           \o QuoteLines(content) \o <<NL, NL>>
      [] style = "div" ->
           <<"<div class=", "\"", "panel", " ">> \o type \o <<"\"", ">", NL, "<h3>">>
           \o formattedTitle \o <<"</h3>", NL>> \o content \o <<NL, "</div>", NL, NL>>
      [] OTHER ->
           <<"#", "#", " ">> \o formattedTitle \o <<NL, NL>> \o content \o <<NL, NL>>

processPanel(panel, ref, seen, style) ==
  IF ref \in seen THEN Ret(<<>>, seen)
  ELSE LET panelType == getPanelType(panel)
           title == IF panel.header.present /\ panel.header.cls \in TitleClasses
                    THEN Trim(panel.header.text) ELSE <<>>
           hasContent == panel.body.present /\ panel.body.cls \in ContentClasses
           content == IF hasContent THEN BlockContent(panel.body.nodes)
                      ELSE BlockContent(PanelChildren(panel))
       IN Ret(panelStyles(style, title, Trim(content), panelType),
              seen \cup {ref} \cup (IF hasContent THEN {ContentRef(ref)} ELSE {}))

processExpandMacro(e, ref, seen) ==
  IF ref \in seen THEN Ret(<<>>, seen)
  ELSE LET title == IF e.header.present /\ e.header.cls = "expand-control-text"
                    THEN OrElse(Trim(e.header.text), <<"Details">>) ELSE <<"Details">>
           hasContent == e.body.present /\ e.body.cls = "expand-content"
           content == IF hasContent THEN BlockContent(e.body.nodes) ELSE <<>>
       IN Ret(<<"<details>", NL, "<summary>">> \o title \o <<"</summary>", NL, NL>>
              \o Trim(content) \o <<NL, "</details>", NL, NL>>,
              seen \cup {ref} \cup (IF hasContent THEN {ContentRef(ref)} ELSE {}))

\* codeContent.split('\n').map(line => four spaces + line).join('\n')
IndentLines(s) ==
  <<" ", " ", " ", " ">> \o ReplaceChar(s, NL, <<NL, " ", " ", " ", " ">>)

\* the backtick, which a TLA+ string cannot hold
Backtick == "backtick"

Fence == <<Backtick, Backtick, Backtick>>

\* e.language is the match of /language=([a-zA-Z0-9]+)/ in data-macro-parameters
processCodeMacro(e, ref, seen, codeStyle) ==
  IF ref \in seen THEN Ret(<<>>, seen)
  ELSE LET codeContent == Trim(ElementText(e)) IN
         Ret(IF codeStyle = "fenced"
             THEN Fence \o e.language \o <<NL>> \o codeContent \o <<NL>> \o Fence \o <<NL, NL>>
             ELSE IndentLines(codeContent) \o <<NL, NL>>,
             seen \cup {ref})

processTocMacro(e, ref, seen) ==
  IF ref \in seen THEN Ret(<<>>, seen)
  ELSE Ret(<<"#", "#", " ", "Table", " ", "of", " ", "Contents", NL, NL,
             "[", "TOC", "]", NL, NL>>, seen \cup {ref})

\* the anchors of the macro whose href contains /browse/
IssueLinks(e) == SelectSeq(e.links, LAMBDA l : l.browse)

RECURSIVE jiraBullets(_)
jiraBullets(links) ==
  IF links = <<>> THEN <<>>
  ELSE <<"*", " ">>
       \o MdLink(OrElse(Trim(Head(links).text), <<"Jira", " ", "Issue">>),
                 OrElse(Head(links).href, <<"#">>))
       \o <<NL>> \o jiraBullets(Tail(links))

\* mutant: the element is not recorded as processed
processJiraMacro_NoMark(e, ref, seen) ==
  IF ref \in seen THEN Ret(<<>>, seen)
  ELSE Ret(<<NL, "*", "*", "Jira", " ", "Issues", ":", "*", "*", NL>>
           \o (IF Len(IssueLinks(e)) > 0 THEN jiraBullets(IssueLinks(e))
               ELSE <<"*", " ", "(", "Jira macro content - further parsing might be needed",
                      ")", NL>>)
           \o <<NL>>,
           seen)

processJiraMacro(e, ref, seen) ==
  IF ref \in seen THEN Ret(<<>>, seen)
  ELSE Ret(<<NL, "*", "*", "Jira", " ", "Issues", ":", "*", "*", NL>>
           \o (IF Len(IssueLinks(e)) > 0 THEN jiraBullets(IssueLinks(e))
               ELSE <<"*", " ", "(", "Jira macro content - further parsing might be needed",
                      ")", NL>>)
           \o <<NL>>,
           seen \cup {ref})

processStatusMacro(e, ref, seen, style) ==
  IF ref \in seen THEN Ret(<<>>, seen)
  ELSE LET statusText == Trim(ElementText(e)) IN
         Ret(IF style = "div"
             THEN <<"<span class=", "\"", "status-macro">>
                  \o (IF e.color # <<>> THEN <<" ">> \o e.color ELSE <<>>)
                  \o <<"\"", ">">> \o statusText \o <<"</span>">>
             ELSE <<"[">> \o statusText \o <<"]">>,
             seen \cup {ref})

----------------------------------------------------------------------------
(* The elements the model draws its inputs from.                           *)

Element(tag, id, classes, border, borderStyle, anc, rows) ==
  [tag |-> tag, id |-> id, classes |-> classes, border |-> border,
   borderStyle |-> borderStyle, anc |-> anc, rows |-> rows,
   macroName |-> "", language |-> <<>>, color |-> <<>>, links |-> <<>>,
   header |-> [present |-> FALSE, cls |-> "", text |-> <<>>],
   body |-> [present |-> FALSE, cls |-> "", nodes |-> <<>>],
   nodes |-> <<>>]

Ancestor(id, classes) == [id |-> id, classes |-> classes]

Td(nodes) == Cell("td", nodes)

Th(nodes) == Cell("th", nodes)

T(c) == <<TextNode(<<c>>)>>

HistoryHeadCells(tag) ==
  << Cell(tag, T("Version")), Cell(tag, T("Published")),
     Cell(tag, <<TextNode(<<"Changed", " ", "By">>)>>), Cell(tag, T("Comment")) >>

PipeText == <<"a", "|", "b">>

RowPool ==
  { Row("thead", HistoryHeadCells("th")),
    Row("thead", HistoryHeadCells("td")),
    Row("tbody", <<Td(T("1")), Td(T("Jan")), Td(<<TextNode(PipeText)>>), Td(T("c"))>>),
    Row("tbody", <<Td(T("a")), Td(<<TextNode(<<" ">> \o PipeText \o <<" ">>)>>),
                   Td(<<Node("strong", <<"b">>, {})>>)>>),
    Row("tbody", <<Td(T("a")), Td(<<Node("em", <<"b">>, {})>>)>>),
    Row("tbody", <<Th(T("h")), Td(T("a"))>>),
    Row("tbody", <<Td(<<Node("p", <<"a">>, {}), Node("br", <<>>, {})>>)>>),
    Row("tbody", <<Td(T("a")), Td(<<NodeA("img", <<>>, {}, <<"x.png">>, <<"pic">>)>>)>>),
    Row("tbody", <<Td(<<TextNode(<<"a", NL, "b">>)>>), Td(T("c"))>>),
    Row("tbody", <<Td(<<TextNode(<<"a">>), Node("br", <<>>, {}), TextNode(<<"b">>),
                        Node("br", <<>>, {}), TextNode(<<"c">>)>>),
                   Td(T("z"))>>),
    Row("tbody", <<Td(<<TextNode(<<" ", "a word of a hundred letters", " ">>)>>)>>),
    Row("tbody", <<Td(<<NodeA("a", <<"v", "|", "2">>, {}, <<"u">>, <<>>)>>), Td(T("Feb")),
                   Td(<<Node("span", <<"A", NL, "B">>, {".page-history-contributor-name span"})>>),
                   Td(T("d"))>>),
    Row("tbody", <<>>) }

\* the rows of a thead come first in table.rows
TheadFirst(rows) ==
  \A i \in 1..Len(rows) : \A k \in 1..Len(rows) :
    (i < k /\ rows[k].section = "thead") => rows[i].section = "thead"

RowSeqs == {rows \in UNION {[1..n -> RowPool] : n \in 0..MaxRows} : TheadFirst(rows)}

\* id, classes, border attribute, border style and ancestors of a table
TableSettings ==
  { <<"", {}, "absent", "", <<>>>>,
    <<"", {"confluenceTable"}, "1", "", <<Ancestor("main-content", {})>>>>,
    <<"", {"layout"}, "absent", "", <<>>>>,
    <<"", {"tableview"}, "absent", "", <<>>>>,
    <<"", {"layout", "tableview"}, "absent", "", <<>>>>,
    <<"", {"wysiwyg-macro"}, "absent", "", <<>>>>,
    <<"", {"layout-table", "contentLayoutTable"}, "0", "", <<Ancestor("", {"columnLayout"})>>>>,
    <<"", {}, "0", "", <<Ancestor("", {"cell"}), Ancestor("", {"columnLayout"})>>>>,
    <<"", {}, "absent", "none", <<Ancestor("", {"panelContent"})>>>>,
    <<"", {}, "absent", "", <<Ancestor("", {"expand-content"})>>>>,
    <<"", {}, "absent", "", <<Ancestor("", {}), Ancestor("page-history", {})>>>>,
    <<"", {}, "absent", "", <<Ancestor("version-box", {})>>>>,
    <<"page-history-container", {}, "absent", "", <<>>>> }

Tables ==
  {Element("table", a[1], a[2], a[3], a[4], a[5], rows) :
     a \in TableSettings, rows \in RowSeqs}

Header(cls, txt) == [present |-> TRUE, cls |-> cls, text |-> txt]

Body(cls, nodes) == [present |-> TRUE, cls |-> cls, nodes |-> nodes]

Div(id, classes) == Element("div", id, classes, "absent", "", <<>>, <<>>)

Link(txt, href, browse) == [text |-> txt, href |-> href, browse |-> browse]

Divs ==
  { Div("page-history-container", {}),
    [Div("", {"panel"}) EXCEPT
       !.header = Header("panelHeader", <<"Title">>),
       !.body = Body("panelContent",
                     <<Node("p", <<"one">>, {}), TextNode(<<"two", NL, "three">>)>>)],
    [Div("", {"confluence-information-macro", "confluence-information-macro-warning"})
       EXCEPT !.nodes = <<Node("h2", <<"head">>, {}), Node("br", <<>>, {}),
                          Node("script", <<"x">>, {}), Node("span", <<" ", "s", " ">>, {})>>],
    [Div("", {"expand-container"}) EXCEPT
       !.header = Header("expand-control-text", <<"More">>),
       !.body = Body("expand-content", <<Node("p", <<"in">>, {})>>)],
    [Div("", {"code", "panel"}) EXCEPT
       !.macroName = "code", !.language = <<"js">>,
       !.nodes = <<TextNode(<<"x", NL, "y">>)>>],
    [Div("", {"toc-macro"}) EXCEPT !.macroName = "toc"],
    [Div("", {"jira-issues"}) EXCEPT
       !.macroName = "jira",
       !.links = <<Link(<<"K-1">>, <<"/browse/K-1">>, TRUE),
                   Link(<<"home">>, <<"/">>, FALSE)>>,
       !.nodes = <<Node("a", <<"K-1">>, {}), Node("a", <<"home">>, {})>>],
    [Div("", {"status-macro"}) EXCEPT
       !.macroName = "status", !.color = <<"green">>, !.nodes = <<TextNode(<<"DONE">>)>>] }

PanelStyles == {"blockquote", "div", "section"}

CodeStyles == {"fenced", "indented"}

NoOptions ==
  [panelStyle |-> "blockquote", codeBlockStyle |-> "fenced",
   includeMetadata |-> FALSE, includeBreadcrumbs |-> FALSE,
   includeLastModified |-> FALSE, includeAttachments |-> FALSE]

TheRef == <<"e">>

NoCall == [op |-> "none", again |-> FALSE, renderer |-> "none"]

NoElem == Div("", {})

\* no basic ConfluenceConverter is at work
NotStarted == [status |-> "none"]

\* no ConfluenceEditor is mounted
Unmounted == [mounted |-> FALSE]

----------------------------------------------------------------------------
(* The sub-converters invoked directly on one element.                     *)

InitSub ==
  /\ elem \in Tables \cup Divs
  /\ variant \in {1, 2}
  /\ \E ps \in PanelStyles, cs \in CodeStyles :
       options = [NoOptions EXCEPT
                    !.panelStyle = IF elem.tag = "table" THEN "blockquote" ELSE ps,
                    !.codeBlockStyle = IF elem.tag = "table" THEN "fenced" ELSE cs]
  /\ tableSeen = {}
  /\ panelSeen = {}
  /\ out = <<>>
  /\ last = NoCall
  /\ emitted = <<>>
  /\ invoked = {}
  /\ html = "none"
  /\ convSeen = {}
  /\ result = [kind |-> "none"]
  /\ input = <<>>
  /\ output = <<>>
  /\ passes = 0
  /\ calls = 0
  /\ editorState = Unmounted
  /\ basicState = NotStarted

Idle ==
  UNCHANGED <<html, convSeen, result, input, output, passes, calls, editorState,
              basicState>>

\* tableProcessor.processTable(elem, document)
ProcessTable ==
  LET r == IF variant = 1 THEN processTable(elem, TheRef, tableSeen)
           ELSE processTable2(elem, TheRef, tableSeen)
  IN /\ tableSeen' = r.seen
     /\ out' = r.out
     /\ emitted' = r.rows
     /\ last' = [op |-> "processTable", again |-> "table" \in invoked,
                 renderer |-> r.renderer]
     /\ invoked' = invoked \cup {"table"}
     /\ UNCHANGED <<elem, variant, options, panelSeen>>
     /\ Idle

PanelCall(op, r) ==
  /\ elem.tag # "table"
  /\ panelSeen' = r.seen
  /\ out' = r.out
  /\ emitted' = <<>>
  /\ last' = [op |-> op, again |-> "panel" \in invoked, renderer |-> "none"]
  /\ invoked' = invoked \cup {"panel"}
  /\ UNCHANGED <<elem, variant, options, tableSeen>>
  /\ Idle

ProcessPanel ==
  PanelCall("processPanel", processPanel(elem, TheRef, panelSeen, options.panelStyle))

ProcessExpandMacro ==
  PanelCall("processExpandMacro", processExpandMacro(elem, TheRef, panelSeen))

ProcessCodeMacro ==
  PanelCall("processCodeMacro",
            processCodeMacro(elem, TheRef, panelSeen, options.codeBlockStyle))

ProcessTocMacro ==
  PanelCall("processTocMacro", processTocMacro(elem, TheRef, panelSeen))

ProcessJiraMacro ==
  PanelCall("processJiraMacro", processJiraMacro(elem, TheRef, panelSeen))

ProcessStatusMacro ==
  PanelCall("processStatusMacro",
            processStatusMacro(elem, TheRef, panelSeen, options.panelStyle))

NextSub ==
  \/ ProcessTable
  \/ ProcessPanel
  \/ ProcessExpandMacro
  \/ ProcessCodeMacro
  \/ ProcessTocMacro
  \/ ProcessJiraMacro
  \/ ProcessStatusMacro

Spec == InitSub /\ [][NextSub]_vars

----------------------------------------------------------------------------
(* Reading rendered markdown back.                                         *)

\* s.split(sep) for a single character sep
RECURSIVE SplitOn(_, _, _)
SplitOn(s, sep, cur) ==
  IF s = <<>> THEN <<cur>>
  ELSE IF Head(s) = sep THEN <<cur>> \o SplitOn(Tail(s), sep, <<>>)
  ELSE SplitOn(Tail(s), sep, Append(cur, Head(s)))

Lines(s) == SplitOn(s, NL, <<>>)

\* the fields of a pipe-table row: the text between two pipes that are not
\* escaped by a backslash
RECURSIVE PipeFields(_, _, _)
PipeFields(s, cur, escaped) ==
  IF s = <<>> THEN <<cur>>
  ELSE IF Head(s) = "|" /\ ~escaped THEN <<cur>> \o PipeFields(Tail(s), <<>>, FALSE)
  ELSE PipeFields(Tail(s), Append(cur, Head(s)), Head(s) = "\\" /\ ~escaped)

\* the number of columns of a pipe-table row "| a | b |"
ColumnCount(line) == Len(PipeFields(line, <<>>, FALSE)) - 2

CountChar(s, c) == Cardinality({i \in 1..Len(s) : s[i] = c})

IsSeparatorLine(line) ==
  /\ "-" \in SeqRange(line)
  /\ SeqRange(line) \subseteq {"|", "-", " "}

\* the largest number of cells in a row of the table
WidestRow(t) ==
  IF t.rows = <<>> THEN 0
  ELSE CHOOSE n \in {Len(t.rows[i].cells) : i \in 1..Len(t.rows)} :
         \A i \in 1..Len(t.rows) : Len(t.rows[i].cells) <= n

FirstTableCall == last.op = "processTable" /\ ~last.again /\ elem.tag = "table"

----------------------------------------------------------------------------
(* Claims about the sub-converters.                                        *)

\* C1: processTable tests History, then Layout, then Complex, and falls
\* back to Standard; the first predicate that matches decides the renderer,
\* so a table that is both History and Layout goes to the history renderer.
C1_Precedence ==
  FirstTableCall =>
    /\ isHistoryTable(elem) => last.renderer = "history"
    /\ (~isHistoryTable(elem) /\ isLayoutTable(elem)) => last.renderer = "layout"
    /\ (~isHistoryTable(elem) /\ ~isLayoutTable(elem) /\ isComplexTable(elem))
         => last.renderer = "complex"
    /\ (~isHistoryTable(elem) /\ ~isLayoutTable(elem) /\ ~isComplexTable(elem))
         => last.renderer = "github"
    /\ last.renderer = "history" =>
         SubSeq(out, 1, 8) = <<NL, "#", "#", "#", " ", "Page", " ", "History">>

C1_Witness ==
  /\ FirstTableCall
  /\ isHistoryTable(elem) /\ isLayoutTable(elem)
  /\ last.renderer = "history"

\* the header cells of the table, th and thead td, in document order
HeaderCellTexts(t) ==
  Flatten([i \in 1..Len(t.rows) |->
    LET hs == SelectSeq(t.rows[i].cells,
                        LAMBDA c : c.tag = "th" \/ t.rows[i].section = "thead")
    IN [j \in 1..Len(hs) |-> CellText(hs[j])]])

\* C6: a table whose header cells are exactly Version, Published,
\* Changed By, Comment is classified History and rendered by the history
\* renderer, whatever its classes.
C6_HistoryHeader ==
  (FirstTableCall /\ HeaderCellTexts(elem) = HistoryHeaders) =>
    /\ isHistoryTable(elem)
    /\ last.renderer = "history"

C6_Witness ==
  /\ FirstTableCall
  /\ HeaderCellTexts(elem) = HistoryHeaders
  /\ "layout" \in elem.classes
  /\ elem.id = "" /\ "tableview" \notin elem.classes
  /\ last.renderer = "history"

\* C7: every row a standard table renders has as many columns as the
\* widest row of the table has cells (shorter rows are padded), and so has
\* every separator row.
C7_Padded ==
  (FirstTableCall /\ last.renderer = "github") =>
    /\ \A k \in 1..Len(emitted) : ColumnCount(emitted[k]) = WidestRow(elem)
    /\ \A k \in 1..Len(Lines(out)) :
         IsSeparatorLine(Lines(out)[k]) => ColumnCount(Lines(out)[k]) = WidestRow(elem)
    /\ emitted # <<>> => \E k \in 1..Len(Lines(out)) : IsSeparatorLine(Lines(out)[k])
    /\ (variant = 1 /\ WidestRow(elem) > 0) => Len(emitted) = Len(elem.rows)

C7_Witness ==
  /\ FirstTableCall /\ last.renderer = "github"
  /\ Len(elem.rows) = 2
  /\ Len(elem.rows[1].cells) = 3 /\ Len(elem.rows[2].cells) = 2
  /\ Len(emitted) = 2
  /\ ColumnCount(emitted[1]) = 3 /\ ColumnCount(emitted[2]) = 3

\* C8: in a rendered row every pipe of a cell's text is escaped: between
\* the column delimiters, the field of a cell holds all the pipes of the
\* cell's text, each after a backslash, and the text a|b reads a\|b.
C8_PipesEscaped ==
  (FirstTableCall /\ last.renderer = "github" /\ emitted # <<>>) =>
    /\ Len(emitted) = Len(elem.rows)
    /\ \A i \in 1..Len(elem.rows) :
         LET fields == PipeFields(emitted[i], <<>>, FALSE) IN
           /\ Len(fields) = WidestRow(elem) + 2
           /\ \A j \in 1..Len(elem.rows[i].cells) :
                /\ CountChar(fields[j + 1], "|")
                     = CountChar(Trim(CellText(elem.rows[i].cells[j])), "|")
                /\ Trim(CellText(elem.rows[i].cells[j])) = PipeText
                     => fields[j + 1] = <<" ", "a", "\\", "|", "b", " ">>

C8_Witness ==
  /\ FirstTableCall /\ last.renderer = "github"
  /\ \E i \in 1..Len(elem.rows) : \E j \in 1..Len(elem.rows[i].cells) :
       /\ Trim(CellText(elem.rows[i].cells[j])) = PipeText
       /\ i <= Len(emitted)
       /\ PipeFields(emitted[i], <<>>, FALSE)[j + 1] = <<" ", "a", "\\", "|", "b", " ">>

\* C10: a sub-converter invoked on an element that an earlier invocation
\* of the same processor has already handled returns the empty string.
C10_Idempotent == last.again => out = <<>>

C10_Witness ==
  /\ last.again
  /\ last.op = "processJiraMacro"
  /\ {"table", "panel"} \subseteq invoked
  /\ TheRef \in panelSeen /\ TheRef \in tableSeen

----------------------------------------------------------------------------
(* EnhancedConfluenceConverter.cleanupMarkdown.  Every replace(/.../g, r)  *)
(* scans its argument from left to right: where the pattern matches, the   *)
(* replacement is written and the scan goes on behind the match; elsewhere *)
(* the character is copied.                                                *)

StartsAt(s, i, lit) ==
  /\ i >= 1
  /\ i + Len(lit) - 1 <= Len(s)
  /\ SubSeq(s, i, i + Len(lit) - 1) = lit

\* the length of the longest run of characters of cs that starts at i
RECURSIVE RunLength(_, _, _)
RunLength(s, i, cs) ==
  IF i >= 1 /\ i <= Len(s) /\ s[i] \in cs THEN 1 + RunLength(s, i + 1, cs) ELSE 0

\* ^ under the m flag
AtLineStart(s, i) == i = 1 \/ s[i - 1] = NL

\* Every scan below goes from one match to the next: the text before the
\* leftmost match at or behind i is copied, the match is replaced, and the
\* scan goes on behind the match.

\* the leftmost position at or behind i that is in ps, 0 when there is none
NextMatch(ps) == IF ps = {} THEN 0 ELSE CHOOSE x \in ps : \A y \in ps : x <= y

Rest(s, i) == SubSeq(s, i, Len(s))

\* replace(/\n{3,}/g, '\n\n')
RECURSIVE CollapseBlankLines(_, _)
CollapseBlankLines(s, i) ==
  LET p == NextMatch({q \in i..Len(s) : s[q] = NL /\ RunLength(s, q, {NL}) >= 3})
  IN  IF p = 0 THEN Rest(s, i)
      ELSE SubSeq(s, i, p - 1) \o <<NL, NL>>
           \o CollapseBlankLines(s, p + RunLength(s, p, {NL}))

\* replace(/([^\n])\n[marks]/g, '$1\n\n' + r)
RECURSIVE BlankLineBefore(_, _, _, _)
BlankLineBefore(s, i, marks, r) ==
  LET p == NextMatch({q \in i..(Len(s) - 2) :
                        s[q] # NL /\ s[q + 1] = NL /\ s[q + 2] \in marks})
  IN  IF p = 0 THEN Rest(s, i)
      ELSE SubSeq(s, i, p) \o <<NL, NL, r>> \o BlankLineBefore(s, p + 3, marks, r)

\* replace(/^(#+)([^#\s])/gm, '$1 $2')
RECURSIVE SpaceAfterHashes(_, _)
SpaceAfterHashes(s, i) ==
  LET p == NextMatch({q \in i..Len(s) :
                        /\ s[q] = "#"
                        /\ AtLineStart(s, q)
                        /\ q + RunLength(s, q, {"#"}) <= Len(s)
                        /\ s[q + RunLength(s, q, {"#"})] \notin WhiteSpace})
      n == RunLength(s, p, {"#"})
  IN  IF p = 0 THEN Rest(s, i)
      ELSE SubSeq(s, i, p + n - 1) \o <<" ", s[p + n]>>
           \o SpaceAfterHashes(s, p + n + 1)

\* replace(/^<lit>\s+/gm, r)
RECURSIVE MergeHeading(_, _, _, _)
MergeHeading(s, i, lit, r) ==
  LET p == NextMatch({q \in i..Len(s) :
                        /\ AtLineStart(s, q)
                        /\ StartsAt(s, q, lit)
                        /\ RunLength(s, q + Len(lit), WhiteSpace) >= 1})
  IN  IF p = 0 THEN Rest(s, i)
      ELSE SubSeq(s, i, p - 1) \o r
           \o MergeHeading(s, p + Len(lit) + RunLength(s, p + Len(lit), WhiteSpace),
                           lit, r)

\* " --- |"
DelimiterCell == <<" ", "-", "-", "-", " ", "|">>

\* "| --- | --- | --- | --- | --- | --- | --- | --- | --- | --- |"
TenDelimiters == <<"|">> \o Repeat(DelimiterCell, 10)

\* (?:\s*?\| --- \|)+ taken greedily from i: the position behind the last
\* repetition, or i when there is none
RECURSIVE ExtraDelimiters(_, _)
ExtraDelimiters(s, i) ==
  LET j == i + RunLength(s, i, WhiteSpace) IN
  IF StartsAt(s, j, <<"|">> \o DelimiterCell)
  THEN ExtraDelimiters(s, j + 1 + Len(DelimiterCell))
  ELSE i

\* replace(excessiveDelimitersPattern, the ten delimiters)
RECURSIVE CutExcessiveDelimiters(_, _)
CutExcessiveDelimiters(s, i) ==
  LET p == NextMatch({q \in i..Len(s) :
                        /\ StartsAt(s, q, TenDelimiters)
                        /\ ExtraDelimiters(s, q + Len(TenDelimiters))
                             > q + Len(TenDelimiters)})
  IN  IF p = 0 THEN Rest(s, i)
      ELSE SubSeq(s, i, p - 1) \o TenDelimiters
           \o CutExcessiveDelimiters(s, ExtraDelimiters(s, p + Len(TenDelimiters)))

\* ---|:?---:?|---:
DelimiterSpecs ==
  { <<"-", "-", "-">>, <<":", "-", "-", "-">>,
    <<"-", "-", "-", ":">>, <<":", "-", "-", "-", ":">> }

\* " (?:---|:?---:?|---:) \|" at i: the position behind it, or 0
DelimiterSpecEnd(s, i) ==
  LET ds == {d \in DelimiterSpecs : StartsAt(s, i, <<" ">> \o d \o <<" ", "|">>)}
  IN  IF ds = {} THEN 0 ELSE i + Len(CHOOSE d \in ds : TRUE) + 3

\* (?: (?:---|:?---:?|---:) \|)+ taken greedily from i: the position
\* behind the last repetition, or i when there is none
RECURSIVE DelimiterSpecs_End(_, _)
DelimiterSpecs_End(s, i) ==
  IF DelimiterSpecEnd(s, i) = 0 THEN i
  ELSE DelimiterSpecs_End(s, DelimiterSpecEnd(s, i))

\* one delimiter row with its newlines at i: the position behind it, or 0
DelimiterRowEnd(s, i) ==
  IF i <= Len(s) /\ s[i] = "|" /\ DelimiterSpecEnd(s, i + 1) # 0
  THEN LET a == DelimiterSpecEnd(s, i + 1)
           b == DelimiterSpecs_End(s, a)
           n == RunLength(s, b, {NL})
       IN  IF b > a /\ n >= 1 THEN b + n ELSE 0
  ELSE 0

\* delimiter rows taken greedily from i: the position behind the last
RECURSIVE DelimiterRowsEnd(_, _)
DelimiterRowsEnd(s, i) ==
  IF DelimiterRowEnd(s, i) = 0 THEN i
  ELSE DelimiterRowsEnd(s, DelimiterRowEnd(s, i))

\* replace(manyDelimitersPattern, '$1')
RECURSIVE CutManyDelimiters(_, _)
CutManyDelimiters(s, i) ==
  LET p == NextMatch({q \in i..Len(s) :
                        /\ s[q] = "|"
                        /\ DelimiterRowEnd(s, q) # 0
                        /\ DelimiterRowEnd(s, DelimiterRowEnd(s, q)) # 0})
      e == DelimiterRowEnd(s, p)
  IN  IF p = 0 THEN Rest(s, i)
      ELSE SubSeq(s, i, e - 1) \o CutManyDelimiters(s, DelimiterRowsEnd(s, e))

cleanupExcessiveTableDelimiters(markdown) ==
  CutManyDelimiters(CutExcessiveDelimiters(markdown, 1), 1)

\* the replacements in the order of the source, the first one innermost
cleanupMarkdown(markdown) ==
  cleanupExcessiveTableDelimiters(
    MergeHeading(
      MergeHeading(
        SpaceAfterHashes(
          BlankLineBefore(
            BlankLineBefore(
              BlankLineBefore(CollapseBlankLines(markdown, 1), 1, {"#"}, "#"),
              1, {"-", "*", "+"}, "-"),
            1, {">"}, ">"),
          1),
        1, <<"#", " ", "#">>, <<"#", "#", " ">>),
      1, <<"#", "#", " ", "#">>, <<"#", "#", "#", " ">>))

----------------------------------------------------------------------------
(* The markdown texts cleanupMarkdown is applied to.                       *)

\* "| --- | --- |" and a newline
DelimiterRow == <<"|">> \o DelimiterCell \o DelimiterCell \o <<NL>>

TextPieces ==
  { <<"a">>, <<NL>>, <<"#">>, <<"-">>, <<"*">>, <<">">>, <<" ">>, DelimiterRow }

RECURSIVE PieceSeqs(_)
PieceSeqs(n) ==
  IF n = 0 THEN {<<>>}
  ELSE PieceSeqs(n - 1)
         \cup {<<p>> \o ps : p \in TextPieces,
                             ps \in {q \in PieceSeqs(n - 1) : Len(q) = n - 1}}

Markdowns == {Flatten(ps) : ps \in PieceSeqs(MaxPieces)}

InitText ==
  /\ elem = NoElem
  /\ variant = 1
  /\ options = NoOptions
  /\ tableSeen = {}
  /\ panelSeen = {}
  /\ out = <<>>
  /\ last = NoCall
  /\ emitted = <<>>
  /\ invoked = {}
  /\ html = "none"
  /\ convSeen = {}
  /\ result = [kind |-> "none"]
  /\ input \in Markdowns
  /\ output = <<>>
  /\ passes = 0
  /\ calls = 0
  /\ editorState = Unmounted
  /\ basicState = NotStarted

\* cleaned = this.cleanupMarkdown(markdown), applied to a markdown text and
\* then to its own result
CleanupMarkdown ==
  /\ passes < MaxPasses
  /\ input' = IF passes = 0 THEN input ELSE output
  /\ output' = cleanupMarkdown(input')
  /\ passes' = passes + 1
  /\ UNCHANGED <<elem, variant, options, tableSeen, panelSeen, out, last,
                 emitted, invoked, html, convSeen, result, calls, editorState,
                 basicState>>

NextText == CleanupMarkdown

SpecText == InitText /\ [][NextText]_vars

\* C3: applying cleanupMarkdown to its own output changes nothing.
C3_Idempotent == passes >= 2 => output = input

----------------------------------------------------------------------------
(* BreadcrumbProcessor and HtmlParser: title, breadcrumbs, frontmatter.    *)
(*                                                                         *)
(* A document is a record of what the selectors of the program find in it: *)
(*   title        document.title                                           *)
(*   titleEls     the texts of the title elements that exist, in the order *)
(*                of the selector chain of extractTitle                    *)
(*   crumbItems   the li items of #breadcrumbs / .breadcrumb-section ol    *)
(*   section      the links of #breadcrumb-section                         *)
(*   lastModified, editor, pageMetadata   the elements extractMetadata     *)
(*                reads, each [present, text]                              *)

\* an optional string: the href of a Breadcrumb
Href(v) == [defined |-> TRUE, value |-> v]

Undefined == [defined |-> FALSE, value |-> <<>>]

Breadcrumb(text, href) == [text |-> text, href |-> href]

\* s.includes(lit)
Includes(s, lit) == \E i \in 1..(Len(s) + 1) : StartsAt(s, i, lit)

\* s.split(sep) for a separator of several characters
RECURSIVE Split(_, _, _)
Split(s, sep, cur) ==
  IF s = <<>> THEN <<cur>>
  ELSE IF StartsAt(s, 1, sep)
       THEN <<cur>> \o Split(SubSeq(s, Len(sep) + 1, Len(s)), sep, <<>>)
       ELSE Split(Tail(s), sep, Append(cur, Head(s)))

\* " : "
TitleSeparator == <<" ", ":", " ">>

\* the end of the first line of s
LineEnd(s) ==
  IF \E i \in 1..Len(s) : s[i] = NL
  THEN (CHOOSE i \in 1..Len(s) : s[i] = NL /\ \A k \in 1..(i - 1) : s[k] # NL) - 1
  ELSE Len(s)

\* title.replace(/^.*\s*:\s*/, ''): .* stays on the first line and is as
\* long as it can be with white space and a colon behind it
StripPrefix(s) ==
  LET colonAfter(e) == e + RunLength(s, e + 1, WhiteSpace) + 1
      es == {e \in 0..LineEnd(s) :
               colonAfter(e) <= Len(s) /\ s[colonAfter(e)] = ":"}
  IN  IF es = {} THEN s
      ELSE LET e == CHOOSE x \in es : \A y \in es : y <= x
               p == colonAfter(e)
           IN  SubSeq(s, p + 1 + RunLength(s, p + 1, WhiteSpace), Len(s))

\* BreadcrumbProcessor.extractTitle
extractTitle(document) ==
  IF document.titleEls # <<>>
  THEN StripPrefix(Trim(document.titleEls[1]))
  ELSE IF document.title # <<>>
       THEN StripPrefix(Trim(document.title))
       ELSE <<"Untitled Page">>

\* the href of a breadcrumb link, normalised
normalizeHref(href) ==
  IF StartsAt(href, 1, <<"/">>) THEN <<".">> \o href
  ELSE IF /\ ~StartsAt(href, 1, <<".", "/">>)
          /\ ~StartsAt(href, 1, <<".", ".", "/">>)
          /\ ~StartsAt(href, 1, <<"#">>)
          /\ ~Includes(href, <<":", "/", "/">>)
       THEN <<".", "/">> \o href
       ELSE href

\* the breadcrumbs of the li items: an item is [link, href, text], href
\* being the href attribute of its link (Undefined when the link has none)
RECURSIVE itemCrumbs(_)
itemCrumbs(items) ==
  IF items = <<>> THEN <<>>
  ELSE LET item == Head(items) IN
       (IF item.link
        THEN <<Breadcrumb(Trim(item.text),
                          Href(normalizeHref(IF item.href.defined /\ item.href.value # <<>>
                                             THEN item.href.value ELSE <<"#">>)))>>
        ELSE IF Trim(item.text) # <<>>
             THEN <<Breadcrumb(Trim(item.text), Href(<<"#">>))>>
             ELSE <<>>)
       \o itemCrumbs(Tail(items))

\* the segments of the title as breadcrumbs that all lack an href
titleCrumbs_NoMarker(parts) ==
  [i \in 1..Len(parts) |-> Breadcrumb(Trim(parts[i]), Undefined)]

\* the breadcrumbs made of the segments of the title
titleCrumbs(parts) ==
  [i \in 1..Len(parts) |->
     Breadcrumb(Trim(parts[i]), IF i = Len(parts) THEN Href(<<"#">>) ELSE Undefined)]

\* BreadcrumbProcessor.extractBreadcrumbs
extractBreadcrumbs(document, opts) ==
  IF ~opts.includeBreadcrumbs THEN <<>>
  ELSE LET found == itemCrumbs(document.crumbItems)
           parts == Split(document.title, TitleSeparator, <<>>)
       IN  IF found # <<>> THEN found
           ELSE IF Len(parts) > 1 THEN titleCrumbs(parts)
           ELSE <<>>

\* the least element of a non-empty set of numbers
Least(S) == CHOOSE x \in S : \A y \in S : x <= y

NoNewline(s, a, b) == \A k \in a..b : k \in 1..Len(s) => s[k] # NL

\* the words the metadata patterns look for; every other run of letters
\* of a metadata text is one element
CreatedWords == {"Created by", "created by"}

UpdatedWords == {"last updated by", "Last updated by"}

OnWords == {"on", "On"}

LastWords == UpdatedWords \cup {"last modified", "last"}

\* the dates [A-Z][a-z]{2}\s+\d{1,2},\s+\d{4} and [A-Z][a-z]{2}\s+\d{1,2}\s+\d{4}
DateWords == {"Jan 1, 2020", "Feb 2 2021"}

\* text.match(/last updated by\s+(.*?)(?:\s+on\s+(.*))?$/i): match[1].trim(),
\* or '' without a match
lastUpdatedBy(text) ==
  LET starts == {i \in 1..Len(text) :
                   text[i] \in UpdatedWords /\ RunLength(text, i + 1, WhiteSpace) >= 1}
      from(i) == i + 1 + RunLength(text, i + 1, WhiteSpace)
      onAt(e) == e + 1 + RunLength(text, e + 1, WhiteSpace)
      after(e) == onAt(e) + 1 + RunLength(text, onAt(e) + 1, WhiteSpace)
      ends(i) == {e \in (from(i) - 1)..Len(text) :
                    /\ NoNewline(text, from(i), e)
                    /\ \/ e = Len(text)
                       \/ /\ RunLength(text, e + 1, WhiteSpace) >= 1
                          /\ onAt(e) <= Len(text)
                          /\ text[onAt(e)] \in OnWords
                          /\ RunLength(text, onAt(e) + 1, WhiteSpace) >= 1
                          /\ NoNewline(text, after(e), Len(text))}
      matches == {i \in starts : ends(i) # {}}
  IN  IF matches = {} THEN <<>>
      ELSE LET i == Least(matches)
           IN  Trim(SubSeq(text, from(i), Least(ends(i))))

\* metadataContent.match(/Created by\s+(.*?)(?:,|\s+on|\s+last)/i):
\* authorMatch[1].trim(), or '' without a match
createdByOf(text) ==
  LET starts == {i \in 1..Len(text) :
                   text[i] \in CreatedWords /\ RunLength(text, i + 1, WhiteSpace) >= 1}
      from(i) == i + 1 + RunLength(text, i + 1, WhiteSpace)
      wordAt(e) == e + 1 + RunLength(text, e + 1, WhiteSpace)
      ends(i) == {e \in (from(i) - 1)..(Len(text) - 1) :
                    /\ NoNewline(text, from(i), e)
                    /\ \/ text[e + 1] = ","
                       \/ /\ RunLength(text, e + 1, WhiteSpace) >= 1
                          /\ wordAt(e) <= Len(text)
                          /\ text[wordAt(e)] \in OnWords \cup LastWords}
      matches == {i \in starts : ends(i) # {}}
  IN  IF matches = {} THEN <<>>
      ELSE LET i == Least(matches)
           IN  Trim(SubSeq(text, from(i), Least(ends(i))))

\* metadataContent.match(/on\s+(<date>)/i): dateMatch[1].trim(), or ''
createdDateOf(text) ==
  LET dateAt(i) == i + 1 + RunLength(text, i + 1, WhiteSpace)
      matches == {i \in 1..Len(text) :
                    /\ text[i] \in OnWords
                    /\ RunLength(text, i + 1, WhiteSpace) >= 1
                    /\ dateAt(i) <= Len(text)
                    /\ text[dateAt(i)] \in DateWords}
  IN  IF matches = {} THEN <<>> ELSE <<text[dateAt(Least(matches))]>>

Present(text) == [present |-> TRUE, text |-> text]

Absent == [present |-> FALSE, text |-> <<>>]

\* lastModifiedElements.filter(Boolean)[0] and what is read from it
lastModifiedOf(document) ==
  IF document.lastModified.present THEN Trim(document.lastModified.text)
  ELSE IF document.editor.present THEN Trim(document.editor.text)
  ELSE IF document.pageMetadata.present
       THEN lastUpdatedBy(Trim(document.pageMetadata.text))
       ELSE <<>>

\* BreadcrumbProcessor.extractMetadata
extractMetadata(document, opts) ==
  [ title |-> extractTitle(document),
    lastModified |-> lastModifiedOf(document),
    createdBy |-> IF document.pageMetadata.present
                  THEN createdByOf(Trim(document.pageMetadata.text)) ELSE <<>>,
    createdDate |-> IF document.pageMetadata.present
                    THEN createdDateOf(Trim(document.pageMetadata.text)) ELSE <<>>,
    breadcrumbs |-> extractBreadcrumbs(document, opts) ]

Quote == "\""

\* text.replace(/"/g, '\\"')
escapeYaml(text) == ReplaceChar(text, Quote, <<"\\", Quote>>)

\* key: "value" and a newline
YamlLine(key, value) == key \o <<":", " ", Quote>> \o escapeYaml(value) \o <<Quote, NL>>

\* href.split('?')[0]
BeforeQuery(href) == Split(href, <<"?">>, <<>>)[1]

RECURSIVE crumbLines(_)
crumbLines(crumbs) ==
  IF crumbs = <<>> THEN <<>>
  ELSE LET crumb == Head(crumbs) IN
       YamlLine(<<" ", " ", "-", " ", "title">>, crumb.text)
       \o (IF crumb.href.defined /\ crumb.href.value # <<>>
           THEN YamlLine(<<" ", " ", " ", " ", "url">>, BeforeQuery(crumb.href.value))
           ELSE <<>>)
       \o crumbLines(Tail(crumbs))

FrontmatterFence == <<"-", "-", "-">>

if(cond, text) == IF cond THEN text ELSE <<>>

\* a frontmatter that is written only when includeMetadata is on
generateFrontmatter_MetadataOnly(metadata, opts) ==
  IF ~opts.includeMetadata THEN <<>>
  ELSE FrontmatterFence \o <<NL>> \o YamlLine(<<"title">>, metadata.title)
       \o FrontmatterFence \o <<NL, NL>>

\* BreadcrumbProcessor.generateFrontmatter
generateFrontmatter(metadata, opts) ==
  IF ~opts.includeMetadata /\ ~opts.includeBreadcrumbs /\ ~opts.includeLastModified
  THEN <<>>
  ELSE FrontmatterFence \o <<NL>>
       \o YamlLine(<<"title">>, metadata.title)
       \o if(opts.includeMetadata /\ metadata.createdBy # <<>>,
             YamlLine(<<"created_by">>, metadata.createdBy))
       \o if(opts.includeMetadata /\ metadata.createdDate # <<>>,
             YamlLine(<<"created_date">>, metadata.createdDate))
       \o if(opts.includeLastModified /\ metadata.lastModified # <<>>,
             YamlLine(<<"last_modified">>, metadata.lastModified))
       \o if(opts.includeBreadcrumbs /\ metadata.breadcrumbs # <<>>,
             <<"breadcrumbs", ":", NL>> \o crumbLines(metadata.breadcrumbs))
       \o FrontmatterFence \o <<NL, NL>>

\* BreadcrumbProcessor.generateBreadcrumbTrail
generateBreadcrumbTrail(breadcrumbs, opts) ==
  IF ~opts.includeBreadcrumbs \/ breadcrumbs = <<>> THEN <<>>
  ELSE <<">", " ">>
       \o Join([i \in 1..Len(breadcrumbs) |->
                  MdLink(breadcrumbs[i].text,
                         BeforeQuery(IF /\ breadcrumbs[i].href.defined
                                        /\ breadcrumbs[i].href.value # <<>>
                                     THEN breadcrumbs[i].href.value ELSE <<"#">>))],
               <<" ", ">", " ">>)
       \o <<NL, NL>>

\* txt.innerHTML = title; txt.value: the character references the model's
\* titles use
DecodeChar(c) ==
  CASE c = "&#58;" -> ":" [] c = "&amp;" -> "&" [] OTHER -> c

\* HtmlParser.extractTitle
parserExtractTitle(document) ==
  LET title == extractTitle(document)
  IN  [i \in 1..Len(title) |-> DecodeChar(title[i])]

\* HtmlParser.extractBreadcrumbs: a link of #breadcrumb-section is
\* [text, href]
parserExtractBreadcrumbs(document, opts) ==
  IF ~opts.includeBreadcrumbs THEN <<>>
  ELSE LET found == [i \in 1..Len(document.section) |->
                       Breadcrumb(Trim(document.section[i].text),
                                  IF /\ document.section[i].href.defined
                                     /\ document.section[i].href.value # <<>>
                                  THEN document.section[i].href ELSE Undefined)]
           parts == Split(parserExtractTitle(document), TitleSeparator, <<>>)
       IN  IF found # <<>> THEN found
           ELSE IF Len(parts) > 1
                THEN [i \in 1..Len(parts) |-> Breadcrumb(Trim(parts[i]), Undefined)]
                ELSE <<>>

\* HtmlParser.extractLastModified: the selectors in their order; the
\* first element found decides
parserExtractLastModified(document, opts) ==
  IF ~opts.includeLastModified THEN <<>>
  ELSE IF document.lastModified.present THEN Trim(document.lastModified.text)
  ELSE IF document.editor.present THEN Trim(document.editor.text)
  ELSE IF document.pageMetadata.present
       THEN lastUpdatedBy(Trim(document.pageMetadata.text))
       ELSE <<>>

\* an a or img element with data-linked-resource-type="attachment": its
\* data-linked-resource-id and -container-id, its textContent (a) or alt
\* and title (img), its href (a) or src (img)
Resource(tag, id, container, name, href) ==
  [tag |-> tag, id |-> id, container |-> container, name |-> name, href |-> href]

Extensions == {".pdf", ".png"}

\* path.extname(filename)
ExtName(filename) ==
  IF Len(filename) >= 2 /\ filename[Len(filename)] \in Extensions
  THEN <<filename[Len(filename)]>> ELSE <<>>

\* a template literal writes null for an attribute that is not there
Shown(attr) == IF attr.defined THEN attr.value ELSE <<"null">>

\* the marked elements of a document: they go with its breadcrumb items
LinkedResources(document) ==
  IF document.crumbItems = <<>> THEN <<>>
  ELSE << Resource("a", Href(<<"1">>), Href(<<"9">>), <<" ", "f", ".pdf", " ">>, Href(<<"f.pdf">>)),
          Resource("img", Href(<<"2">>), Undefined, <<"pic", ".png">>, Undefined),
          Resource("a", Undefined, Href(<<"9">>), <<"g">>, Href(<<"g">>)),
          Resource("a", Href(<<"3">>), Href(<<"9">>), <<" ">>, Href(<<"h">>)),
          Resource("img", Href(<<"1">>), Href(<<"9">>), <<"again">>, Href(<<>>)) >>

\* the AttachmentInfo of a marked element that has an id and a filename
AttachmentInfo(r) ==
  LET filename == IF r.tag = "a" THEN Trim(r.name) ELSE r.name
  IN  [id |-> r.id.value,
       filename |-> filename,
       containerId |-> IF r.container.defined THEN r.container.value ELSE <<>>,
       href |-> IF r.href.defined /\ r.href.value # <<>> THEN r.href.value
                ELSE <<"attachments/">> \o Shown(r.container) \o <<"/">>
                       \o r.id.value \o ExtName(filename)]

\* an extractAttachmentInfo that does not look at includeAttachments
extractAttachmentInfo_Ungated(document, opts) ==
  LET IsA(r) == r.tag = "a"
      IsImg(r) == r.tag = "img"
      Kept(r) == r.id.defined /\ r.id.value # <<>> /\ AttachmentInfo(r).filename # <<>>
      rs == SelectSeq(SelectSeq(LinkedResources(document), IsA)
                        \o SelectSeq(LinkedResources(document), IsImg), Kept)
  IN  [id \in {rs[i].id.value : i \in 1..Len(rs)} |->
         AttachmentInfo(rs[CHOOSE i \in 1..Len(rs) :
                             /\ rs[i].id.value = id
                             /\ \A j \in 1..Len(rs) : rs[j].id.value = id => j <= i])]

\* HtmlParser.extractAttachmentInfo: the Map from id to AttachmentInfo, the
\* links set before the images, a later element replacing an earlier one
\* of the same id
extractAttachmentInfo(document, opts) ==
  IF ~opts.includeAttachments THEN <<>>
  ELSE LET IsA(r) == r.tag = "a"
           IsImg(r) == r.tag = "img"
           Kept(r) == r.id.defined /\ r.id.value # <<>> /\ AttachmentInfo(r).filename # <<>>
           rs == SelectSeq(SelectSeq(LinkedResources(document), IsA)
                             \o SelectSeq(LinkedResources(document), IsImg), Kept)
       IN  [id \in {rs[i].id.value : i \in 1..Len(rs)} |->
              AttachmentInfo(rs[CHOOSE i \in 1..Len(rs) :
                                  /\ rs[i].id.value = id
                                  /\ \A j \in 1..Len(rs) : rs[j].id.value = id => j <= i])]

----------------------------------------------------------------------------
(* The documents and metadata the title, breadcrumb and frontmatter        *)
(* functions are applied to.                                               *)

Words(ws) == Join(ws, TitleSeparator)

Titles ==
  { Words(<< <<"Space">>, <<"Parent">>, <<"Child">> >>),
    Words(<< <<"Home">>, <<"a", Quote, "b">> >>),
    <<"A", " ", "&#58;", " ", "B">>,
    <<"Page">>,
    <<>> }

TitleElements ==
  { <<>>,
    << Words(<< <<"Space">>, <<"Heading">> >>) >>,
    << <<" ">>, <<"Late">> >> }

Item(link, href, text) == [link |-> link, href |-> href, text |-> text]

CrumbItems ==
  { <<>>,
    << Item(TRUE, Href(<<"/", "s">>), <<"Space">>),
       Item(TRUE, Href(<<"p", "?", "v">>), <<" ", "Parent", " ">>),
       Item(TRUE, Undefined, <<"Up">>),
       Item(FALSE, Undefined, <<" ">>),
       Item(FALSE, Undefined, <<"Here">>) >>,
    << Item(TRUE, Href(<<".", "/", "a">>), <<"a">>),
       Item(TRUE, Href(<<".", ".", "/", "b">>), <<"b">>),
       Item(TRUE, Href(<<"#", "c">>), <<"c">>),
       Item(TRUE, Href(<<"http", ":", "/", "/", "d">>), <<"d">>) >>,
    << Item(TRUE, Href(<<"mailto", ":", "x">>), <<"mail">>),
       Item(TRUE, Href(<<"/", "/", "h", "/", "p">>), <<"host">>) >> }

PageMetadatas ==
  { Absent,
    Present(<<NL, " ", "Created by", " ", "Ann", ",", " ", "last updated by", " ",
              "Bob", " ", "on", " ", "Jan 1, 2020", NL>>),
    Present(<<"Created by", " ", "Ann", " ", "on", " ", "Feb 2 2021">>) }

\* the links of #breadcrumb-section and the .last-modified and .editor
\* elements go with the breadcrumb items and the page metadata
MetaDocument(title, titleEls, crumbItems, pageMetadata) ==
  [ title |-> title,
    titleEls |-> titleEls,
    crumbItems |-> crumbItems,
    section |-> IF crumbItems = <<>> THEN <<>>
                ELSE << [text |-> <<"Space">>, href |-> Href(<<"/", "s">>)],
                        [text |-> <<"Here">>, href |-> Href(<<>>)] >>,
    lastModified |-> IF pageMetadata.present /\ Head(pageMetadata.text) = NL
                     THEN Present(<<" ", "Mar 3, 2022">>) ELSE Absent,
    editor |-> IF pageMetadata.present /\ titleEls = <<>>
               THEN Present(<<"Eve">>) ELSE Absent,
    pageMetadata |-> pageMetadata ]

MetaDocuments ==
  { MetaDocument(t, te, ci, pm) :
      t \in Titles, te \in TitleElements, ci \in CrumbItems, pm \in PageMetadatas }

MetadataPool ==
  { [ title |-> t,
      lastModified |-> IF full THEN <<"Bob">> ELSE <<>>,
      createdBy |-> IF full THEN <<"Ann">> ELSE <<>>,
      createdDate |-> IF full THEN <<"Jan 1, 2020">> ELSE <<>>,
      breadcrumbs |-> cs ] :
      t \in {<<>>, <<"Page">>, <<"a", Quote, "b">>},
      full \in BOOLEAN,
      cs \in { <<>>,
               << Breadcrumb(<<"Space">>, Undefined),
                  Breadcrumb(<<"Here">>, Href(<<"p", "?", "v">>)) >> } }

NoOutput == [op |-> "none"]

InitMeta ==
  /\ elem = NoElem
  /\ variant = 1
  /\ \E m \in BOOLEAN, b \in BOOLEAN, l \in BOOLEAN, a \in BOOLEAN :
       options = [NoOptions EXCEPT !.includeMetadata = m,
                                   !.includeBreadcrumbs = b,
                                   !.includeLastModified = l,
                                   !.includeAttachments = a]
  /\ tableSeen = {}
  /\ panelSeen = {}
  /\ out = <<>>
  /\ last = NoCall
  /\ emitted = <<>>
  /\ invoked = {}
  /\ html = "none"
  /\ convSeen = {}
  /\ result = [kind |-> "none"]
  /\ input \in MetaDocuments
  /\ output = NoOutput
  /\ passes = 0
  /\ calls = 0
  /\ editorState = Unmounted
  /\ basicState = NotStarted

MetaCall(value) ==
  /\ output' = value
  /\ UNCHANGED <<elem, variant, options, tableSeen, panelSeen, out, last,
                 emitted, invoked, html, convSeen, result, input, passes, calls,
                 editorState, basicState>>

\* breadcrumbProcessor.extractBreadcrumbs(document)
ExtractBreadcrumbs ==
  MetaCall([op |-> "extractBreadcrumbs",
            crumbs |-> extractBreadcrumbs(input, options)])

\* htmlParser.extractBreadcrumbs(document)
ParserExtractBreadcrumbs ==
  MetaCall([op |-> "HtmlParser.extractBreadcrumbs",
            crumbs |-> parserExtractBreadcrumbs(input, options)])

\* htmlParser.extractTitle(document)
ParserExtractTitle ==
  MetaCall([op |-> "HtmlParser.extractTitle", title |-> parserExtractTitle(input)])

\* htmlParser.extractLastModified(document)
ParserExtractLastModified ==
  MetaCall([op |-> "HtmlParser.extractLastModified",
            text |-> parserExtractLastModified(input, options)])

\* htmlParser.extractAttachmentInfo(document)
ExtractAttachmentInfo ==
  MetaCall([op |-> "HtmlParser.extractAttachmentInfo",
            map |-> extractAttachmentInfo(input, options)])

\* breadcrumbProcessor.extractMetadata(document)
ExtractMetadata ==
  MetaCall([op |-> "extractMetadata",
            metadata |-> extractMetadata(input, options)])

\* breadcrumbProcessor.generateFrontmatter(metadata), on the metadata just
\* extracted or on any other metadata
GenerateFrontmatter ==
  \E m \in MetadataPool \cup (IF output.op = "extractMetadata"
                              THEN {output.metadata} ELSE {}) :
    MetaCall([op |-> "generateFrontmatter",
              metadata |-> m,
              text |-> generateFrontmatter(m, options)])

\* breadcrumbProcessor.generateBreadcrumbTrail(metadata.breadcrumbs)
GenerateBreadcrumbTrail ==
  /\ output.op = "extractMetadata"
  /\ MetaCall([op |-> "generateBreadcrumbTrail",
               crumbs |-> output.metadata.breadcrumbs,
               text |-> generateBreadcrumbTrail(output.metadata.breadcrumbs, options)])

\* the defaultOptions html-parser imports from './types': every inclusion
\* flag off
defaultOptions ==
  [panelStyle |-> "blockquote", codeBlockStyle |-> "fenced",
   includeMetadata |-> FALSE, includeBreadcrumbs |-> FALSE,
   includeLastModified |-> FALSE, includeAttachments |-> FALSE]

\* HtmlParser.constructor(htmlContent, options = defaultOptions)
HtmlParser(htmlContent, opts) == [dom |-> htmlContent, options |-> opts]

\* Converter.constructor(options): new HtmlParser(options) binds the options
\* to htmlContent, and the parser's options parameter takes its default
Converter(opts) ==
  [htmlParser |-> HtmlParser(opts, defaultOptions), converter |-> opts]

InvalidFilenameChars == {"<", ">", ":", Quote, "/", "\\", "|", "?", "*"}

\* .replace(/\s+/g, '_')
RECURSIVE SpacesToUnderscore(_)
SpacesToUnderscore(s) ==
  IF s = <<>> THEN <<>>
  ELSE IF Head(s) \in WhiteSpace
       THEN <<"_">> \o SpacesToUnderscore(TrimStart(s))
       ELSE <<Head(s)>> \o SpacesToUnderscore(Tail(s))

\* .replace(/^\.+/, '')
RECURSIVE DropLeadingDots(_)
DropLeadingDots(s) ==
  IF s # <<>> /\ Head(s) = "." THEN DropLeadingDots(Tail(s)) ELSE s

\* .replace(/\.+$/, '')
RECURSIVE DropTrailingDots(_)
DropTrailingDots(s) ==
  IF s # <<>> /\ s[Len(s)] = "."
  THEN DropTrailingDots(SubSeq(s, 1, Len(s) - 1)) ELSE s

\* FileSystem.sanitizeFilename; no text of the model reaches 255 characters
sanitizeFilename(filename) ==
  DropTrailingDots(DropLeadingDots(SpacesToUnderscore(
    [i \in 1..Len(filename) |->
       IF filename[i] \in InvalidFilenameChars THEN "_" ELSE filename[i]])))

\* the directory processDirectory writes a file to: below outputDir, the
\* breadcrumbs but the last, or the directory of the file's relative path
outputPath(breadcrumbs) ==
  IF Len(breadcrumbs) > 0
  THEN [from |-> "breadcrumbs",
        pathSegments |-> [i \in 1..(Len(breadcrumbs) - 1) |->
                            sanitizeFilename(breadcrumbs[i].text)]]
  ELSE [from |-> "relativePath", pathSegments |-> <<>>]

AttachmentOptions == {"visible", "hidden", "xml"}

\* new Converter(options).processDirectory(inputDir, outputDir, _), for one
\* file of inputDir: the analysis pass and the output directory
ProcessDirectory ==
  \E breadcrumbs \in
       {parserExtractBreadcrumbs(input, Converter(options).htmlParser.options)} :
    MetaCall([op |-> "Converter.processDirectory",
              breadcrumbs |-> breadcrumbs,
              outputPath |-> outputPath(breadcrumbs)])

\* new Converter(options).processFile(_, _, attachmentOption): the
\* attachments extracted and whether processAttachments copies them
ProcessFile ==
  \E attachmentOption \in AttachmentOptions :
    \E attachments \in
         {extractAttachmentInfo(input, Converter(options).htmlParser.options)} :
      MetaCall([op |-> "Converter.processFile",
                attachmentOption |-> attachmentOption,
                attachments |-> attachments,
                copied |-> /\ DOMAIN attachments # {}
                           /\ attachmentOption # "hidden"])

NextMeta ==
  \/ ParserExtractTitle
  \/ ProcessDirectory
  \/ ProcessFile
  \/ ExtractBreadcrumbs
  \/ ParserExtractBreadcrumbs
  \/ ParserExtractLastModified
  \/ ExtractAttachmentInfo
  \/ ExtractMetadata
  \/ GenerateFrontmatter
  \/ GenerateBreadcrumbTrail

SpecMeta == InitMeta /\ [][NextMeta]_vars

SpaceParentChild == Words(<< <<"Space">>, <<"Parent">>, <<"Child">> >>)

\* the case of C5: breadcrumbs on, no breadcrumb container, and the title
\* Space : Parent : Child
C5_Case ==
  /\ options.includeBreadcrumbs
  /\ input.crumbItems = <<>> /\ input.section = <<>>
  /\ input.title = SpaceParentChild
  /\ input.titleEls = <<>>

----------------------------------------------------------------------------
(* TurndownService, as far as convert uses it.  turndown(html) parses the  *)
(* string it is handed into a tree of its own, so the rules see copies of  *)
(* the elements of the main content, never the elements of the document;   *)
(* it replaces every element by the output of the first rule (the rule     *)
(* added last comes first) whose filter takes it, and joins the outputs.   *)

\* trimLeadingNewlines, trimTrailingNewlines
RECURSIVE TrimLeadingNewlines(_)
TrimLeadingNewlines(s) ==
  IF s # <<>> /\ Head(s) = NL THEN TrimLeadingNewlines(Tail(s)) ELSE s

RECURSIVE TrimTrailingNewlines(_)
TrimTrailingNewlines(s) ==
  IF s # <<>> /\ s[Len(s)] = NL
  THEN TrimTrailingNewlines(SubSeq(s, 1, Len(s) - 1)) ELSE s

Min(a, b) == IF a <= b THEN a ELSE b

\* join(output, replacement): at most two newlines between two outputs
TurndownJoin(md, replaced) ==
  LET s1 == TrimTrailingNewlines(md)
      s2 == TrimLeadingNewlines(replaced)
      nls == Max(Len(md) - Len(s1), Len(replaced) - Len(s2))
  IN  s1 \o Repeat(<<NL>>, Min(nls, 2)) \o s2

\* postProcess: output.replace(/^[\t\r\n]+/, '').replace(/[\t\r\n\s]+$/, '')
RECURSIVE TrimLeadingBreaks(_)
TrimLeadingBreaks(s) ==
  IF s # <<>> /\ Head(s) \in {NL, "\t", "\r"} THEN TrimLeadingBreaks(Tail(s)) ELSE s

TurndownPost(md) == TrimEnd(TrimLeadingBreaks(md))

\* the elements turndown never takes for blank: the void elements and the
\* elements that mean something when empty
NeverBlank ==
  {"br", "hr", "img", "input", "a", "table", "thead", "tbody", "tfoot",
   "th", "td", "iframe", "script", "audio", "video"}

ChildTags(e) ==
  {e.nodes[i].tag : i \in 1..Len(e.nodes)}
    \cup (IF e.body.present
          THEN {e.body.nodes[i].tag : i \in 1..Len(e.body.nodes)} ELSE {})

\* node.isBlank
isBlank(e) ==
  /\ e.tag \notin NeverBlank
  /\ Trim(ElementText(e)) = <<>>
  /\ ChildTags(e) \cap NeverBlank = {}

\* ElementDetector.isPanel
isPanel(e) ==
  \/ e.classes \cap {"panel", "confluence-information-macro", "aui-message",
                     "admonition", "expand-container"} # {}
  \/ e.macroName # ""

\* the rule turndown picks for an element: the blank rule, then the rules
\* of setupCustomRules from the last added to the first, then its own
ruleFor(e) ==
  IF isBlank(e) THEN "blank"
  ELSE IF "status-macro" \in e.classes \/ e.macroName = "status" THEN "status"
  ELSE IF "toc-macro" \in e.classes \/ e.macroName = "toc" THEN "toc"
  ELSE IF "expand-container" \in e.classes THEN "expand"
  ELSE IF e.tag \in {"pre", "code"} THEN "code"
  ELSE IF e.tag = "table" THEN "table"
  ELSE IF isPanel(e) THEN "panel"
  ELSE "default"

\* the processed sets of the converter and of its two processors
Sets(conv, table, panel) == [conv |-> conv, table |-> table, panel |-> panel]

Replaced(md, sets, renderer) == [out |-> md, sets |-> sets, renderer |-> renderer]

\* new PanelProcessor(this.options.panelStyle): the constructor takes the
\* TurndownService first and the panel style second, so the style of the
\* converter's processor is the default of the second parameter
converterPanelStyle(opts) == "blockquote"

\* a rule of setupCustomRules that marks the element and hands it to the
\* panel processor
panelRule(r, ref, sets, rule) ==
  Replaced(r.out, Sets(sets.conv \cup {ref}, sets.table, r.seen), rule)

\* the replacement of the rule picked for the copy e of an element
replacement(e, ref, sets, opts) ==
  LET rule == ruleFor(e) IN
  IF rule = "blank" THEN Replaced(<<NL, NL>>, sets, "blank")
  ELSE IF rule = "panel"
       THEN panelRule(processPanel(e, ref, sets.panel, converterPanelStyle(opts)), ref, sets, rule)
  ELSE IF rule = "default"
       THEN Replaced(<<NL, NL>> \o Trim(ElementText(e)) \o <<NL, NL>>, sets, "default")
  ELSE IF ref \in sets.conv THEN Replaced(<<>>, sets, "skipped")
  ELSE IF rule = "status"
       THEN panelRule(processStatusMacro(e, ref, sets.panel, converterPanelStyle(opts)), ref, sets, rule)
  ELSE IF rule = "toc"
       THEN panelRule(processTocMacro(e, ref, sets.panel), ref, sets, rule)
  ELSE IF rule = "expand"
       THEN panelRule(processExpandMacro(e, ref, sets.panel), ref, sets, rule)
  ELSE IF rule = "code"
       THEN Replaced(IF opts.codeBlockStyle = "fenced"
                     THEN Fence \o e.language \o <<NL>> \o ElementText(e)
                          \o <<NL>> \o Fence \o <<NL, NL>>
                     ELSE IF opts.codeBlockStyle = "indented"
                     THEN IndentLines(ElementText(e)) \o <<NL, NL>>
                     ELSE ElementText(e),
                     Sets(sets.conv \cup {ref}, sets.table, sets.panel), "code")
  ELSE LET r == processTable(e, ref, sets.table)
       IN  Replaced(r.out, Sets(sets.conv \cup {ref}, r.seen, sets.panel), r.renderer)

----------------------------------------------------------------------------
(* EnhancedConfluenceConverter.convert.                                    *)
(*                                                                         *)
(* A document that DOMParser makes of a string has, besides the fields of  *)
(* the metadata functions:                                                 *)
(*   parsererror  whether querySelector('parsererror') finds an element    *)
(*   containers   the selectors of findMainContent that match an element   *)
(*   body         the elements below body in document order, each with     *)
(*                whether it lies inside the main content container        *)
(*   attachments  the a and img elements marked as attachments             *)
(* The element k of the document of call c is <<c, "document", k>>, its    *)
(* copy in the tree of turndown is <<c, "turndown", k>>.                   *)

ContentOptions ==
  <<"#main-content", "#content .wiki-content", ".wiki-content", "#content", ".view", "body">>

\* ElementDetector.findMainContent: the first selector that matches
findMainContent(document) ==
  LET hits == {i \in 1..Len(ContentOptions) :
                 ContentOptions[i] \in document.containers \cup {"body"}}
  IN  ContentOptions[Least(hits)]

InMain(document, k) ==
  findMainContent(document) = "body" \/ document.body[k].inMain

DocumentRef(call, k) == <<call, "document", k>>

TurndownRef(call, k) == <<call, "turndown", k>>

AncestorRef(call, k, j) == <<call, "ancestor", k, j>>

\* the element k of the document, below the main content container and body
Original(document, k) ==
  [document.body[k].el EXCEPT
     !.anc = @ \o (IF InMain(document, k) /\ findMainContent(document) # "body"
                   THEN <<Ancestor("main-content", {})>> ELSE <<>>)
               \o <<Ancestor("", {})>>]

\* its copy, below the root element of turndown
Copy(document, k) ==
  [document.body[k].el EXCEPT !.anc = @ \o <<Ancestor("turndown-root", {})>>]

Rendering(k, by, r) ==
  [k |-> k, by |-> by, renderer |-> r.renderer, empty |-> r.out = <<>>]

\* process(parentNode) of turndown on the main content: the elements in
\* document order, each replaced and joined to the output so far
\* the output so far joined with the replacement r of the element k
joined(acc, k, r) ==
  [text |-> TurndownJoin(acc.text, r.out),
   sets |-> r.sets,
   renders |-> Append(acc.renders, Rendering(k, "walk", r)),
   thrown |-> acc.thrown]

\* the rules whose replacement hands the element to the table processor
\* or to the panel processor
Specialized == {"panel", "table", "expand", "toc", "status"}

\* A renderer can throw: Math.max(...rows.map(...)) of processGithubTable
\* throws a RangeError on a table of very many rows.  document.faults
\* holds the elements on which the renderer that takes them throws; the
\* rule has marked the element by then.
throwsAt(document, k, rule, ref, sets) ==
  /\ k \in document.faults
  /\ rule \in Specialized
  /\ (rule = "panel" \/ ref \notin sets.conv)

\* the walk at the throw: nothing more is replaced
thrownAt(acc, k, ref) ==
  [text |-> acc.text,
   sets |-> Sets(acc.sets.conv \cup {ref}, acc.sets.table, acc.sets.panel),
   renders |-> Append(acc.renders,
                      Rendering(k, "walk", Replaced(<<>>, acc.sets, "thrown"))),
   thrown |-> TRUE]

RECURSIVE walk(_, _, _, _, _)
walk(document, call, opts, k, acc) ==
  IF k > Len(document.body) \/ acc.thrown THEN acc
  ELSE IF ~InMain(document, k) THEN walk(document, call, opts, k + 1, acc)
  ELSE IF throwsAt(document, k, ruleFor(Copy(document, k)), TurndownRef(call, k), acc.sets)
  THEN thrownAt(acc, k, TurndownRef(call, k))
  ELSE walk(document, call, opts, k + 1,
            joined(acc, k, replacement(Copy(document, k), TurndownRef(call, k),
                                       acc.sets, opts)))

\* what turndown returns for the output w of the walk
postProcess(w) == [w EXCEPT !.text = TurndownPost(w.text)]

\* Element.textContent
textContent(e) == IF e.tag = "table" THEN TableText(e) ELSE ElementText(e)

\* mainContent.textContent
MainText(document) ==
  Flatten([k \in 1..Len(document.body) |->
             IF InMain(document, k) THEN textContent(document.body[k].el) ELSE <<>>])

\* the try and the catch of processContent
caught(document, w) ==
  IF w.thrown THEN [w EXCEPT !.text = MainText(document)] ELSE postProcess(w)

\* EnhancedConfluenceConverter.processContent
processContent(document, call, opts, sets) ==
  caught(document,
         walk(document, call, opts, 1,
              [text |-> <<>>, sets |-> sets, renders |-> <<>>, thrown |-> FALSE]))

\* '#page-history-container, .tableview, table.pageHistory'
HistorySelector(id, classes, tag) ==
  \/ id = "page-history-container"
  \/ "tableview" \in classes
  \/ (tag = "table" /\ "pageHistory" \in classes)

\* the ancestors of the element k that the selector takes, outermost last
SelectedAncestors(document, k) ==
  {j \in 1..Len(document.body[k].el.anc) :
     HistorySelector(document.body[k].el.anc[j].id,
                     document.body[k].el.anc[j].classes, "div")}

Selected(document, k) ==
  \/ SelectedAncestors(document, k) # {}
  \/ HistorySelector(document.body[k].el.id, document.body[k].el.classes,
                     document.body[k].el.tag)

NoTarget == [found |-> FALSE]

\* document.querySelector(history selector): the first element of the
\* document, an ancestor coming before what it holds
historyTable(document, call) ==
  LET ks == {k \in 1..Len(document.body) : Selected(document, k)} IN
  IF ks = {} THEN NoTarget
  ELSE LET k == Least(ks)
           js == SelectedAncestors(document, k)
       IN  IF js # {}
           THEN LET j == CHOOSE x \in js : \A y \in js : y <= x
                IN  [found |-> TRUE, k |-> k,
                     el |-> Div(document.body[k].el.anc[j].id,
                                document.body[k].el.anc[j].classes),
                     ref |-> AncestorRef(call, k, j)]
           ELSE [found |-> TRUE, k |-> k, el |-> Original(document, k),
                 ref |-> DocumentRef(call, k)]

\* the version history step of convert
historyMarkdown(w, k, r) ==
  [text |-> r.out,
   sets |-> Sets(w.sets.conv, r.seen, w.sets.panel),
   renders |-> Append(w.renders, Rendering(k, "history", r))]

historyOf(target, w) ==
  IF target.found /\ target.ref \notin w.sets.conv
  THEN historyMarkdown(w, target.k, processTable(target.el, target.ref, w.sets.table))
  ELSE [text |-> <<>>, sets |-> w.sets, renders |-> w.renders]

historyStep(document, call, w) == historyOf(historyTable(document, call), w)

\* processTable of the version history step throws: nothing catches it
\* before the catch of convert
historyThrows(document, target, w) ==
  /\ target.found
  /\ target.ref \notin w.sets.conv
  /\ target.el.tag = "table"
  /\ target.k \in document.faults

Attachment(tag, name, href) == [tag |-> tag, name |-> name, href |-> href]

\* EnhancedConfluenceConverter.extractAttachments: the links, then the
\* images, that have a name and an href
extractAttachments(document) ==
  LET named(a) == Trim(a.name) # <<>> /\ a.href # <<>>
  IN  SelectSeq(document.attachments, LAMBDA a : a.tag = "a" /\ named(a))
      \o SelectSeq(document.attachments, LAMBDA a : a.tag = "img" /\ a.name # <<>> /\ a.href # <<>>)

RECURSIVE attachmentLines(_)
attachmentLines(as) ==
  IF as = <<>> THEN <<>>
  ELSE <<"*", " ">>
       \o MdLink(IF Head(as).tag = "a" THEN Trim(Head(as).name) ELSE Head(as).name,
                 Head(as).href)
       \o <<NL>> \o attachmentLines(Tail(as))

attachmentsSection(document, opts) ==
  IF opts.includeAttachments /\ extractAttachments(document) # <<>>
  THEN <<NL, "#", "#", " ", "Attachments", NL, NL>>
       \o attachmentLines(extractAttachments(document)) \o <<NL>>
  ELSE <<>>

\* what convert is handed: a string (empty, or the source of a document)
\* or a value of another type
Html(type, truthy, document) == [type |-> type, truthy |-> truthy, document |-> document]

Thrown(message, sets) ==
  [kind |-> "throw", returned |-> FALSE, markdown |-> <<>>,
   message |-> <<"Error converting HTML to Markdown: ">> \o message,
   sets |-> sets, renders |-> <<>>]

InvalidInput == <<"Invalid HTML input: Input must be a non-empty string">>

ParseFailure == <<"Failed to parse HTML: Invalid HTML structure">>

\* error.message of what a renderer throws
RendererError == <<"Maximum call stack size exceeded">>

\* the markdown parts of convert in their order, cleaned up
Returned(document, opts, metadata, w, history) ==
  [kind |-> "ok", returned |-> TRUE,
   markdown |->
     cleanupMarkdown(
       generateFrontmatter(metadata, opts)
         \o (IF metadata.breadcrumbs # <<>>
             THEN generateBreadcrumbTrail(metadata.breadcrumbs, opts) ELSE <<>>)
         \o <<"#", " ">> \o metadata.title \o <<NL, NL>>
         \o w.text \o history.text
         \o attachmentsSection(document, opts)),
   message |-> <<>>, sets |-> history.sets, renders |-> history.renders]

\* the version history step behind the content w
withContent(document, opts, call, metadata, w) ==
  IF historyThrows(document, historyTable(document, call), w)
  THEN Thrown(RendererError, w.sets)
  ELSE Returned(document, opts, metadata, w, historyStep(document, call, w))

\* the try block of convert behind the two checks
converted(document, opts, sets, call) ==
  withContent(document, opts, call, extractMetadata(document, opts),
              processContent(document, call, opts, sets))

\* a convert that takes a document with an error node like any other
convert_NoParserCheck(h, opts, sets, call) ==
  IF ~h.truthy \/ h.type # "string" THEN Thrown(InvalidInput, sets)
  ELSE converted(h.document, opts, sets, call)

\* EnhancedConfluenceConverter.convert: findMainContent always finds body,
\* so the third throw of the method is never taken
convert(h, opts, sets, call) ==
  IF ~h.truthy \/ h.type # "string" THEN Thrown(InvalidInput, sets)
  ELSE IF h.document.parsererror THEN Thrown(ParseFailure, sets)
  ELSE converted(h.document, opts, sets, call)

----------------------------------------------------------------------------
(* The inputs of convert.                                                  *)

Table(id, classes, anc, rows) == Element("table", id, classes, "absent", "", anc, rows)

HistoryRow == Row("tbody", <<Td(T("1")), Td(T("Jan")), Td(T("Ann")), Td(T("c"))>>)

PlainRows ==
  << Row("tbody", <<Th(T("h")), Th(T("k"))>>), Row("tbody", <<Td(T("a")), Td(T("b"))>>) >>

\* a version history table marked by its class
MarkedHistory == Table("", {"tableview"}, <<>>, <<Row("thead", HistoryHeadCells("th")), HistoryRow>>)

\* a version history table known by its headers only
HeadersHistory == Table("", {}, <<>>, <<Row("thead", HistoryHeadCells("th")), HistoryRow>>)

\* a version history table inside the page history container
ContainedHistory ==
  Table("", {}, <<Ancestor("page-history-container", {})>>, <<HistoryRow, HistoryRow>>)

\* a table of the class pageHistory that is no version history table
PageHistoryTable == Table("", {"pageHistory"}, <<>>, PlainRows)

PlainTable == Table("", {"confluenceTable"}, <<>>, PlainRows)

Paragraph == [Element("p", "", {}, "absent", "", <<>>, <<>>) EXCEPT !.nodes = T("text")]

Pre ==
  [Element("pre", "", {}, "absent", "", <<>>, <<>>)
     EXCEPT !.language = <<"js">>, !.nodes = <<TextNode(<<"x", NL, "y">>)>>]

Placed(el, inMain) == [el |-> el, inMain |-> inMain]

Bodies ==
  { <<>>,
    <<Placed(MarkedHistory, TRUE)>>,
    <<Placed(MarkedHistory, FALSE)>>,
    <<Placed(HeadersHistory, TRUE)>>,
    <<Placed(ContainedHistory, TRUE)>>,
    <<Placed(PageHistoryTable, TRUE)>>,
    <<Placed(Paragraph, TRUE), Placed(PlainTable, TRUE), Placed(MarkedHistory, TRUE)>>,
    <<Placed(PlainTable, TRUE), Placed(MarkedHistory, FALSE)>>,
    <<Placed(HeadersHistory, TRUE), Placed(MarkedHistory, TRUE)>>,
    <<Placed(Pre, TRUE), Placed(Paragraph, FALSE)>> }
  \cup {<<Placed(d, TRUE), Placed(Paragraph, TRUE)>> : d \in Divs}

Attachments ==
  << Attachment("img", <<"pic">>, <<"p.png">>),
     Attachment("a", <<" ", "file", " ">>, <<"f.pdf">>),
     Attachment("a", <<>>, <<"g.pdf">>),
     Attachment("a", <<"h">>, <<>>) >>

Document(meta, parsererror, containers, body) ==
  [ title |-> meta.title, titleEls |-> meta.titleEls, crumbItems |-> meta.crumbItems,
    section |-> meta.section, lastModified |-> meta.lastModified,
    editor |-> meta.editor, pageMetadata |-> meta.pageMetadata,
    parsererror |-> parsererror, containers |-> containers, body |-> body,
    faults |-> {},
    attachments |-> IF meta.crumbItems = <<>> THEN <<>> ELSE Attachments ]

\* a page with nothing but a title
BareHead == MetaDocument(SpaceParentChild, <<>>, <<>>, Absent)

\* a page with a title element, breadcrumbs, page metadata and attachments
FullHead ==
  MetaDocument(<<"Page">>, << Words(<< <<"Space">>, <<"Heading">> >>) >>,
               << Item(TRUE, Href(<<"/", "s">>), <<"Space">>),
                  Item(FALSE, Undefined, <<"Here">>) >>,
               Present(<<"Created by", " ", "Ann", " ", "on", " ", "Feb 2 2021">>))

Documents ==
  { Document(BareHead, FALSE, c, b) :
      c \in {{}, {"#main-content"}, {".wiki-content", ".view"}}, b \in Bodies }
  \cup { Document(FullHead, FALSE, {}, b) : b \in Bodies }
  \cup { Document(m, TRUE, {}, <<Placed(MarkedHistory, TRUE)>>) : m \in {BareHead, FullHead} }

\* the document with the elements ks made such that their renderer throws
Faulty(document, ks) == [document EXCEPT !.faults = ks]

FaultBodies ==
  { <<Placed(Paragraph, TRUE), Placed(PlainTable, TRUE), Placed(MarkedHistory, TRUE)>>,
    <<Placed(PlainTable, TRUE), Placed(MarkedHistory, FALSE)>>,
    <<Placed(PageHistoryTable, FALSE)>>,
    <<Placed(Pre, TRUE), Placed(Paragraph, FALSE)>> }
  \cup {<<Placed(d, TRUE), Placed(Paragraph, TRUE)>> : d \in Divs}

FaultyDocuments ==
  { Faulty(Document(BareHead, FALSE, {"#main-content"}, b), {k}) :
      b \in FaultBodies, k \in 1..2 }

NoDocument == Document(MetaDocument(<<>>, <<>>, <<>>, Absent), FALSE, {}, <<>>)

\* '' and the source of a document; null, 0, 5 and an object
Htmls ==
  {Html("string", FALSE, NoDocument)}
  \cup {Html("string", TRUE, d) : d \in Documents \cup FaultyDocuments}
  \cup {Html("object", FALSE, NoDocument), Html("number", FALSE, NoDocument),
        Html("number", TRUE, NoDocument), Html("object", TRUE, NoDocument)}

NoHtml == Html("none", FALSE, NoDocument)

NoResult ==
  [kind |-> "none", returned |-> FALSE, markdown |-> <<>>, message |-> <<>>,
   renders |-> <<>>]

InitConvert ==
  /\ elem = NoElem
  /\ variant = 1
  /\ \E m \in BOOLEAN, a \in BOOLEAN, p \in PanelStyles :
       options = [NoOptions EXCEPT !.includeMetadata = m,
                                   !.includeBreadcrumbs = m,
                                   !.includeLastModified = m,
                                   !.includeAttachments = a,
                                   !.panelStyle = p]
  /\ tableSeen = {}
  /\ panelSeen = {}
  /\ out = <<>>
  /\ last = NoCall
  /\ emitted = <<>>
  /\ invoked = {}
  /\ html = NoHtml
  /\ convSeen = {}
  /\ result = NoResult
  /\ input = <<>>
  /\ output = <<>>
  /\ passes = 0
  /\ calls = 0
  /\ editorState = Unmounted
  /\ basicState = NotStarted

\* what a later call of the same converter is handed: the same source
\* again, a page with a version history table, or ''
LaterHtmls(h) ==
  {h, Html("string", TRUE, Document(BareHead, FALSE, {}, <<Placed(MarkedHistory, TRUE)>>)),
   Html("string", FALSE, NoDocument)}

\* what the caller of convert sees: the string returned or the error thrown
Outcome(r) ==
  [kind |-> r.kind, returned |-> r.returned, markdown |-> r.markdown,
   message |-> r.message, renders |-> r.renders]

\* TurndownRef and DocumentRef of a parser that hands out the elements of
\* the first call again
TurndownRef_Shared(call, k) == <<1, "turndown", k>>

\* converter.convert(h)
Convert ==
  /\ calls < MaxCalls
  /\ \E h \in (IF calls = 0 THEN Htmls ELSE LaterHtmls(html)) :
       \E r \in {convert(h, options, Sets(convSeen, tableSeen, panelSeen), calls + 1)} :
           /\ html' = h
           /\ result' = Outcome(r)
           /\ convSeen' = r.sets.conv
           /\ tableSeen' = r.sets.table
           /\ panelSeen' = r.sets.panel
  /\ calls' = calls + 1
  /\ UNCHANGED <<elem, variant, options, out, last, emitted, invoked, input,
                 output, passes, editorState, basicState>>

NextConvert == Convert

SpecConvert == InitConvert /\ [][NextConvert]_vars

\* the renderings of the element k that wrote something
Renderings(k) ==
  {i \in 1..Len(result.renders) : result.renders[i].k = k /\ ~result.renders[i].empty}

\* the version history tables inside the main content of the document
HistoryTablesInMain ==
  {k \in 1..Len(html.document.body) :
     /\ html.document.body[k].el.tag = "table"
     /\ isHistoryTable(html.document.body[k].el)
     /\ InMain(html.document, k)}

\* C2: a version history table inside the main content is rendered exactly
\* once by convert: the version history step behind the walk writes nothing
\* for a table the walk has rendered.
C2_RenderedOnce ==
  result.kind = "ok" =>
    \A k \in HistoryTablesInMain : Cardinality(Renderings(k)) = 1

\* C9: convert on an empty or non-string input, or on a document with an
\* error node, returns nothing: it throws one error whose message is the
\* prefix of convert followed by the message of the failure.
C9_Throws ==
  (calls > 0 /\ (html.type # "string" \/ ~html.truthy \/ html.document.parsererror)) =>
    /\ result.kind = "throw"
    /\ ~result.returned
    /\ result.markdown = <<>>
    /\ result.message =
         <<"Error converting HTML to Markdown: ">>
           \o (IF html.type = "string" /\ html.truthy
               THEN <<"Failed to parse HTML: Invalid HTML structure">>
               ELSE <<"Invalid HTML input: Input must be a non-empty string">>)

C9_Witness ==
  /\ calls > 0
  /\ html.type = "string" /\ html.truthy /\ html.document.parsererror
  /\ html.document.body # <<>>
  /\ result.kind = "throw"
  /\ result.message = <<"Error converting HTML to Markdown: ",
                        "Failed to parse HTML: Invalid HTML structure">>

\* the elements the converter and its processors hold as processed
Held == convSeen \cup tableSeen \cup panelSeen

\* The processed sets live as long as the converter, but every call parses
\* a document of its own: none of the elements held when a call begins is
\* an element of that call, and the call returns or throws what it would
\* on a new converter.
C11_Independent ==
  [][calls' = calls + 1 =>
       /\ \A ref \in Held : ref[1] # calls'
       /\ result' = Outcome(convert(html', options, Sets({}, {}, {}), 1))]_vars

C11_Witness ==
  /\ calls = 2
  /\ result.kind = "ok"
  /\ \E i \in 1..Len(result.renders) : ~result.renders[i].empty
  /\ \E ref \in convSeen : ref[1] = 1
  /\ \E ref \in tableSeen : ref[1] = 1
  /\ \E ref \in tableSeen : ref[1] = 2

\* C11: the processed sets are created at the start of a convert call and
\* discarded at its return: no element recorded during a call is still
\* held when a later call begins.
C11_Discarded == calls >= 1 => Held = {}

\* C12: every extractor of HtmlParser looks at its option first: with
\* includeLastModified off extractLastModified returns '', with
\* includeAttachments off extractAttachmentInfo returns an empty map, with
\* includeBreadcrumbs off extractBreadcrumbs returns an empty array,
\* whatever the document holds.
C12_Gated ==
  /\ (output.op = "HtmlParser.extractLastModified" /\ ~options.includeLastModified)
       => output.text = <<>>
  /\ (output.op = "HtmlParser.extractAttachmentInfo" /\ ~options.includeAttachments)
       => DOMAIN output.map = {}
  /\ (output.op = "HtmlParser.extractBreadcrumbs" /\ ~options.includeBreadcrumbs)
       => output.crumbs = <<>>

C12_Witness ==
  /\ output.op = "HtmlParser.extractAttachmentInfo"
  /\ ~options.includeAttachments
  /\ DOMAIN extractAttachmentInfo(input, [options EXCEPT !.includeAttachments = TRUE])
       = {<<"1">>, <<"2">>}
  /\ DOMAIN output.map = {}

\* the panels of the document that the panel rule has rendered
RenderedPanels ==
  {result.renders[i].k : i \in {j \in 1..Len(result.renders) :
                                   /\ result.renders[j].renderer = "panel"
                                   /\ ~result.renders[j].empty}}

\* the first line of the panel k in the style s: > **title**, or
\* <div class="panel type">, or ## title
PanelHead(k, s) ==
  Head(Lines(processPanel(Copy(html.document, k), TurndownRef(calls, k), {}, s).out))

\* C13: a panel rendered by convert is written in the panelStyle the
\* converter was given: the markdown holds the first line of the panel in
\* that style.
C13_FollowsOption ==
  result.kind = "ok" =>
    \A k \in RenderedPanels : Includes(result.markdown, PanelHead(k, options.panelStyle))

\* where a line of the returned markdown starts with lit
LineStarts(lit) ==
  {i \in 1..Len(result.markdown) :
     AtLineStart(result.markdown, i) /\ StartsAt(result.markdown, i, lit)}

\* how the parts of the returned markdown begin, in the order of the claim:
\* the frontmatter block, the breadcrumb trail, the title heading, the
\* paragraph of the body, the version history table, the attachments list
PartHeads ==
  << FrontmatterFence \o <<NL, "title", ":">>,
     <<">", " ", "[">>,
     <<"#", " ">>,
     <<"text">>,
     <<"#", "#", "#", " ", "Page", " ", "History">>,
     <<"#", "#", " ", "Attachments">> >>

\* no part of the list begins behind the beginning of a later one
PartsInOrder ==
  \A p \in 1..Len(PartHeads) : \A q \in (p + 1)..Len(PartHeads) :
    \A i \in LineStarts(PartHeads[p]) : \A j \in LineStarts(PartHeads[q]) : i < j

\* C14: in the string convert returns the frontmatter block, the breadcrumb
\* trail, the title heading, the body, the version history table and the
\* attachments list come in this order, each at most once.
C14_FixedOrder ==
  result.kind = "ok" =>
    /\ PartsInOrder
    /\ \A p \in 1..Len(PartHeads) : Cardinality(LineStarts(PartHeads[p])) <= 1

\* the elements of the document whose renderer has thrown in this call
FaultsHit ==
  IF calls = 0 \/ html.type # "string" \/ ~html.truthy \/ html.document.parsererror
  THEN {}
  ELSE {k \in html.document.faults \cap (1..Len(html.document.body)) :
          /\ ruleFor(Copy(html.document, k)) \in Specialized
          /\ \/ InMain(html.document, k)
             \/ /\ historyTable(html.document, calls).found
                /\ historyTable(html.document, calls).k = k
                /\ historyTable(html.document, calls).el.tag = "table"}

\* the document with the text of the element k in the place of k
PlainAt(document, ks) ==
  [document EXCEPT
     !.faults = {},
     !.body = [k \in 1..Len(document.body) |->
                 IF k \in ks
                 THEN Placed([Paragraph EXCEPT
                                !.nodes = <<TextNode(Trim(textContent(document.body[k].el)))>>],
                             document.body[k].inMain)
                 ELSE document.body[k]]]

\* C15: when a table, panel or macro renderer throws, convert still
\* returns: it does not throw, and for an element of the walk the markdown
\* is that of the document with the trimmed text of the element in its
\* place, the markdown of the other elements unchanged.
C15_Fallback ==
  FaultsHit # {} =>
    /\ result.kind = "ok"
    /\ (\A k \in FaultsHit : InMain(html.document, k)) =>
         result.markdown =
           convert(Html("string", TRUE, PlainAt(html.document, FaultsHit)),
                   options, Sets({}, {}, {}), 1).markdown

\* the attachments of the document that have a name and an href, in
\* document order, each as the line * [name](href)
ExpectedAttachmentLines ==
  LET Named(a) == (IF a.tag = "a" THEN Trim(a.name) ELSE a.name) # <<>> /\ a.href # <<>>
      as == SelectSeq(html.document.attachments, Named)
  IN  [i \in 1..Len(as) |->
         <<"*", " ">> \o MdLink(IF as[i].tag = "a" THEN Trim(as[i].name) ELSE as[i].name,
                                as[i].href)]

\* where the heading ## Attachments starts in the returned markdown
AttachmentHeadings == LineStarts(<<"#", "#", " ", "Attachments", NL>>)

\* where the lines behind that heading start that are not empty
AttachmentLineStarts ==
  {i \in 1..Len(result.markdown) :
     /\ AttachmentHeadings # {}
     /\ i > Least(AttachmentHeadings)
     /\ AtLineStart(result.markdown, i)
     /\ result.markdown[i] # NL}

\* the lines behind that heading that are not empty, in their order
AttachmentLines ==
  [n \in 1..Cardinality(AttachmentLineStarts) |->
     LET i == CHOOSE p \in AttachmentLineStarts :
                Cardinality({q \in AttachmentLineStarts : q < p}) = n - 1
         rest == SubSeq(result.markdown, i, Len(result.markdown))
     IN  SubSeq(rest, 1, LineEnd(rest))]

\* C16: with includeAttachments on and at least one attachment that has a
\* name and an href, the returned markdown holds one line * [name](href)
\* per attachment, in document order; with includeAttachments off it has
\* no attachments section.
C16_AttachmentLines ==
  result.kind = "ok" =>
    /\ (options.includeAttachments /\ ExpectedAttachmentLines # <<>>)
         => AttachmentLines = ExpectedAttachmentLines
    /\ ~options.includeAttachments => AttachmentHeadings = {}

\* a table element that is none of history, layout and complex table
IsStandardTable(t) ==
  /\ IsTableElement(t)
  /\ ~isHistoryTable(t)
  /\ ~isLayoutTable(t)
  /\ ~isComplexTable(t)

HasCell(t) == \E i \in 1..Len(t.rows) : Len(t.rows[i].cells) > 0

\* md is a pipe table: it has a delimiter row and each of its lines that is
\* not empty starts and ends with a pipe
IsPipeTable(md) ==
  /\ \E i \in 1..Len(Lines(md)) : IsSeparatorLine(Lines(md)[i])
  /\ \A i \in 1..Len(Lines(md)) :
        Lines(md)[i] # <<>> =>
          Head(Lines(md)[i]) = "|" /\ Lines(md)[i][Len(Lines(md)[i])] = "|"

\* C17: processTable invoked for the first time on a standard table that
\* has a row with a cell returns a pipe table that is not empty; it
\* returns the empty string for such a table only when an earlier
\* invocation has processed it.
C17_StandardTable ==
  (last.op = "processTable" /\ IsStandardTable(elem) /\ HasCell(elem)) =>
    /\ ~last.again => (out # <<>> /\ IsPipeTable(out))
    /\ out = <<>> => last.again

\* the kind of a macro element, "" for an element that is no macro
MacroKind(e) ==
  IF e.macroName = "jira" \/ "jira-issues" \in e.classes THEN "jira"
  ELSE IF e.macroName = "code" THEN "code"
  ELSE IF "expand-container" \in e.classes THEN "expand"
  ELSE IF e.macroName = "toc" \/ "toc-macro" \in e.classes THEN "toc"
  ELSE IF e.macroName = "status" \/ "status-macro" \in e.classes THEN "status"
  ELSE ""

\* the replacements of the walk of the returned call that are replacements
\* of a macro element and did not throw
MacroRenderings ==
  {i \in 1..Len(result.renders) :
     /\ result.renders[i].by = "walk"
     /\ result.renders[i].renderer # "thrown"
     /\ MacroKind(html.document.body[result.renders[i].k].el) # ""}

\* C18: in convert every macro element is rendered by the renderer of its
\* own kind (jira, code, expand, toc, status), never by the panel renderer.
C18_OwnRenderer ==
  result.kind = "ok" =>
    \A i \in MacroRenderings :
      result.renders[i].renderer = MacroKind(html.document.body[result.renders[i].k].el)

----------------------------------------------------------------------------
(* ConfluenceEditor: the state of the component, the two effects that     *)
(* build the converter and run the conversion, and the events that change *)
(* the HTML input and the options.  An effect is pending from the render  *)
(* in which one of its dependencies has changed until it has run.         *)

\* the most events (edits of the HTML input and changes of the options)
\* the editor receives
MaxEvents == 3

\* useState<string | null>(null)
Null == <<"null">>

\* new EnhancedConfluenceConverter(options)
NewConverter(opts) == [options |-> opts, sets |-> Sets({}, {}, {}), calls |-> 0]

\* the component after it has been mounted with the options opts
Mounted(opts) ==
  [mounted |-> TRUE, htmlInput |-> Html("string", FALSE, NoDocument),
   markdownOutput |-> <<>>, error |-> Null, converter |-> NewConverter(opts),
   built |-> 0, pending |-> {}, events |-> 0]

\* what is typed, pasted or uploaded into the HTML input: '', two pages
\* and a source that does not parse
EditorInputs ==
  { Html("string", FALSE, NoDocument),
    Html("string", TRUE,
         Document(FullHead, FALSE, {},
                  <<Placed(Paragraph, TRUE), Placed(PlainTable, TRUE),
                    Placed(MarkedHistory, TRUE)>>)),
    Html("string", TRUE,
         Document(BareHead, FALSE, {"#main-content"},
                  <<Placed(PlainTable, TRUE), Placed(MarkedHistory, FALSE)>>)),
    Html("string", TRUE, Document(FullHead, TRUE, {}, <<Placed(MarkedHistory, TRUE)>>)) }

\* the options objects the options panel hands to the editor
EditorOptions ==
  {[NoOptions EXCEPT !.includeMetadata = m, !.includeBreadcrumbs = m,
                     !.includeLastModified = m, !.includeAttachments = a] :
     m \in BOOLEAN, a \in BOOLEAN}

\* mutant: the conversion effect depends on the HTML input only
conversionDeps_NoConverter == {"htmlInput"}

\* the dependencies of the conversion effect
conversionDeps == {"htmlInput", "converter"}

\* the dependencies of the effect that builds the converter
converterDeps == {"options"}

\* the effects that are pending after a render in which `changed` differs
Scheduled(changed) ==
  (IF changed \in converterDeps THEN {"converter"} ELSE {})
    \cup (IF changed \in conversionDeps THEN {"conversion"} ELSE {})

InitEditor ==
  /\ elem = NoElem
  /\ variant = 1
  /\ options \in EditorOptions
  /\ tableSeen = {}
  /\ panelSeen = {}
  /\ out = <<>>
  /\ last = NoCall
  /\ emitted = <<>>
  /\ invoked = {}
  /\ html = NoHtml
  /\ convSeen = {}
  /\ result = NoResult
  /\ input = <<>>
  /\ output = <<>>
  /\ passes = 0
  /\ calls = 0
  /\ editorState = Mounted(options)
  /\ basicState = NotStarted

EditorIdle ==
  UNCHANGED <<elem, variant, tableSeen, panelSeen, out, last, emitted, invoked,
              html, convSeen, result, input, output, passes, calls, basicState>>

\* handleHtmlChange and handleFileUpload: setHtmlInput(value); a value equal
\* to the state causes no render
HandleHtmlChange ==
  /\ editorState.events < MaxEvents
  /\ \E h \in EditorInputs :
       editorState' =
         [editorState EXCEPT
            !.htmlInput = h,
            !.pending = @ \cup (IF h # editorState.htmlInput
                                THEN Scheduled("htmlInput") ELSE {}),
            !.events = @ + 1]
  /\ UNCHANGED options
  /\ EditorIdle

\* onOptionsChange({...options, ...}) of the options panel: the editor is
\* rendered with a new options object
ChangeOptions ==
  /\ editorState.events < MaxEvents
  /\ \E o \in EditorOptions :
       /\ options' = o
       /\ editorState' =
            [editorState EXCEPT !.pending = @ \cup Scheduled("options"),
                                !.events = @ + 1]
  /\ EditorIdle

\* useEffect(() => { setConverter(new EnhancedConfluenceConverter(options)) },
\* [options])
ConverterEffect ==
  /\ "converter" \in editorState.pending
  /\ editorState' =
       [editorState EXCEPT
          !.converter = NewConverter(options),
          !.built = @ + 1,
          !.pending = (@ \ {"converter"}) \cup Scheduled("converter")]
  /\ UNCHANGED options
  /\ EditorIdle

\* the state after the try and catch of the conversion effect
afterConversion(state, r) ==
  [state EXCEPT
     !.markdownOutput = IF r.kind = "ok" THEN r.markdown ELSE <<>>,
     !.error = IF r.kind = "ok" THEN Null ELSE r.message,
     !.converter = [@ EXCEPT !.sets = r.sets, !.calls = @ + 1],
     !.pending = @ \ {"conversion"}]

\* useEffect(() => { if (htmlInput) {...} else {...} }, [htmlInput, converter])
ConversionEffect ==
  /\ "conversion" \in editorState.pending
  /\ IF editorState.htmlInput.truthy
     THEN \E r \in {convert(editorState.htmlInput, editorState.converter.options,
                            editorState.converter.sets,
                            editorState.converter.calls + 1)} :
            editorState' = afterConversion(editorState, r)
     ELSE editorState' = [editorState EXCEPT !.markdownOutput = <<>>,
                                             !.error = Null,
                                             !.pending = @ \ {"conversion"}]
  /\ UNCHANGED options
  /\ EditorIdle

NextEditor ==
  \/ HandleHtmlChange
  \/ ChangeOptions
  \/ ConverterEffect
  \/ ConversionEffect

SpecEditor == InitEditor /\ [][NextEditor]_vars

\* (markdownOutput, error) as the editor shows them
Displayed == <<editorState.markdownOutput, editorState.error>>

\* what a converter built from the options shows for the input h
Conversion(h, opts) ==
  IF ~h.truthy THEN <<<<>>, Null>>
  ELSE IF convert(h, opts, Sets({}, {}, {}), 1).kind = "ok"
       THEN <<convert(h, opts, Sets({}, {}, {}), 1).markdown, Null>>
  ELSE <<<<>>, convert(h, opts, Sets({}, {}, {}), 1).message>>

\* C19: once no effect of the editor is pending, (markdownOutput, error) is
\* what a converter built from the current options gives for the current
\* HTML input: (its markdown, null), ('', its error message) when it
\* throws, ('', null) when the input is empty.
C19_Consistent ==
  (editorState.mounted /\ editorState.pending = {}) =>
    Displayed = Conversion(editorState.htmlInput, options)

\* the options have changed behind a conversion, and a converter built
\* later has converted the input
C19_Witness ==
  /\ editorState.mounted
  /\ editorState.pending = {}
  /\ editorState.built >= 1
  /\ editorState.converter.calls >= 1
  /\ editorState.markdownOutput # <<>>

\* the trimmed text of the first of the texts that is not blank, '' when
\* all are blank
FirstNonEmpty(texts) ==
  IF \A i \in 1..Len(texts) : Trim(texts[i]) = <<>> THEN <<>>
  ELSE Trim(texts[Least({i \in 1..Len(texts) : Trim(texts[i]) # <<>>})])

\* the title of the first title location that has text, else of the
\* document, else Untitled Page, without its "Space : " prefix
FirstTitle(document) ==
  IF FirstNonEmpty(document.titleEls \o <<document.title>>) = <<>>
  THEN <<"Untitled Page">>
  ELSE StripPrefix(FirstNonEmpty(document.titleEls \o <<document.title>>))

\* the title the last call has extracted
ExtractedTitle ==
  IF output.op = "extractMetadata" THEN output.metadata.title ELSE output.title

\* C20: extractTitle returns the text of the first title location whose
\* text is not empty, else the title of the document, else Untitled Page;
\* it never returns the empty string.
C20_FirstNonEmpty ==
  output.op \in {"extractMetadata", "HtmlParser.extractTitle"} =>
    /\ ExtractedTitle # <<>>
    /\ ExtractedTitle =
         IF output.op = "extractMetadata" THEN FirstTitle(input)
         ELSE [i \in 1..Len(FirstTitle(input)) |-> DecodeChar(FirstTitle(input)[i])]

\* an href that begins with a scheme and a colon
IsSchemeQualified(href) ==
  /\ Len(href) >= 2
  /\ href[1] \notin {"/", ".", "#", "?", ":"}
  /\ href[2] = ":"

\* the href of a breadcrumb anchor as the normalisation rule has it
NormalizedHref(href) ==
  IF StartsAt(href, 1, <<"/">>) THEN <<".">> \o href
  ELSE IF \/ IsSchemeQualified(href)
          \/ StartsAt(href, 1, <<"#">>)
          \/ StartsAt(href, 1, <<".", "/">>)
          \/ StartsAt(href, 1, <<".", ".", "/">>)
       THEN href
  ELSE <<".", "/">> \o href

\* the breadcrumb items of the document that have an anchor with an href
AnchorItems(document) ==
  {k \in 1..Len(document.crumbItems) :
     /\ document.crumbItems[k].link
     /\ document.crumbItems[k].href.defined
     /\ document.crumbItems[k].href.value # <<>>}

\* the place of the crumb of the item k among the crumbs of the items
CrumbOf(document, k) ==
  Cardinality({j \in 1..k : document.crumbItems[j].link
                              \/ Trim(document.crumbItems[j].text) # <<>>})

\* C21: the crumb of a breadcrumb item with an anchor has the href of the
\* anchor with "." before a leading "/", with "./" before a bare relative
\* path, and unchanged when it has a scheme, is a fragment or begins with
\* ./ or ../
C21_Normalized ==
  (output.op = "extractBreadcrumbs" /\ options.includeBreadcrumbs) =>
    \A k \in AnchorItems(input) :
      output.crumbs[CrumbOf(input, k)].href =
        Href(NormalizedHref(input.crumbItems[k].href.value))

\* where the separator rows of the markdown md start
SeparatorStarts(md) ==
  {i \in 1..Len(md) :
     /\ AtLineStart(md, i)
     /\ md[i] # NL
     /\ IsSeparatorLine(SubSeq(md, i, i - 1 + LineEnd(SubSeq(md, i, Len(md)))))}

\* the rows of the table that have a header cell
HeaderRows(t) ==
  {i \in 1..Len(t.rows) : \E j \in 1..Len(t.rows[i].cells) : t.rows[i].cells[j].tag = "th"}

\* where the line behind the first k emitted rows starts
BehindRow(k) == 2 + Len(Flatten([i \in 1..k |-> emitted[i] \o <<NL>>]))

\* C22: a rendered standard table has exactly one separator row, right
\* behind its first row or behind its first row with a header cell.
C22_OneSeparator ==
  (last.op = "processTable" /\ last.renderer = "github" /\ out # <<>>) =>
    /\ Cardinality(SeparatorStarts(out)) = 1
    /\ SeparatorStarts(out) \subseteq
         {BehindRow(1)} \cup (IF HeaderRows(elem) = {} THEN {}
                              ELSE {BehindRow(Least(HeaderRows(elem)))})

\* C23: every row of a rendered standard table is one line of the output:
\* no row string holds a newline, and the output has one line for each row
\* and each separator row.
C23_OneLinePerRow ==
  (last.op = "processTable" /\ last.renderer = "github" /\ out # <<>>) =>
    /\ \A i \in 1..Len(emitted) : NL \notin SeqRange(emitted[i])
    /\ CountChar(out, NL) = 2 + Len(emitted) + Cardinality(SeparatorStarts(out))

\* the cells <<i, j>> of the table whose content the renderer reads: of a
\* version history table the first four td cells of each data row with
\* three or more of them, of any other table every cell
ReadCells(t, renderer) ==
  {c \in {<<i, j>> : i \in 1..Len(t.rows), j \in 1..MaxCellCount(t.rows)} :
     /\ c[2] <= Len(t.rows[c[1]].cells)
     /\ renderer = "history" =>
          /\ HistoryRowSelected(t, c[1])
          /\ Len(TdCells(t.rows[c[1]])) >= 3
          /\ t.rows[c[1]].cells[c[2]].tag = "td"
          /\ Cardinality({k \in 1..c[2] : t.rows[c[1]].cells[k].tag = "td"}) <= 4}

\* C24: when processTable has returned for a history, layout, complex or
\* standard table, every row of the table and every cell the renderer
\* read is in the processed set.
C24_AllMarked ==
  (last.op = "processTable" /\ last.renderer \in {"history", "layout", "complex", "github"}) =>
    /\ \A i \in 1..Len(elem.rows) : RowRef(TheRef, i) \in tableSeen
    /\ \A c \in ReadCells(elem, last.renderer) : CellRef(TheRef, c[1], c[2]) \in tableSeen

\* the data rows of the version history table the renderer writes a line for
HistoryDataRows(t) ==
  {i \in 1..Len(t.rows) : HistoryRowSelected(t, i) /\ Len(TdCells(t.rows[i])) >= 3}

\* the lines of a rendered version history table behind its heading, its
\* header row and its separator row that are not empty
HistoryDataLines(md) ==
  {i \in 6..Len(Lines(md)) : Lines(md)[i] # <<>>}

\* C25: each data row of a rendered version history table is one line of
\* exactly four columns: the newlines of the cell texts are spaces and
\* their pipes are escaped.
C25_FourColumns ==
  (last.op = "processTable" /\ last.renderer = "history" /\ ~last.again) =>
    /\ Cardinality(HistoryDataLines(out)) = Cardinality(HistoryDataRows(elem))
    /\ \A i \in HistoryDataLines(out) : ColumnCount(Lines(out)[i]) = 4

\* a cell below every threshold of the complex-cell predicate: no heading,
\* image, list, table or panel in it, at most one paragraph, at most two
\* line breaks and at most 100 characters of trimmed text
BelowThresholds(cell) ==
  /\ ~CellHas(cell, ComplexTags)
  /\ CellCount(cell, "p") <= 1
  /\ CellCount(cell, "br") <= 2
  /\ TextLen(Trim(CellText(cell))) <= 100

\* C26: a table that is no history and no layout table is classified
\* Complex exactly when one of its cells is above a threshold; a cell with
\* two line breaks, one paragraph and 100 characters is not.
C26_StrictThresholds ==
  (last.op = "processTable" /\ ~last.again /\ last.renderer \in {"complex", "github"}) =>
    (last.renderer = "complex" <=>
       \E c \in AllCells(elem) : ~BelowThresholds(elem.rows[c[1]].cells[c[2]]))

\* C27: a table is classified History only if its own id or class is a
\* history-view marker or its header cells hold a version token together
\* with a changed-by or published token, wherever it is nested.
C27_OwnMarkerOrHeaders ==
  (last.op = "processTable" /\ ~last.again /\ last.renderer = "history") =>
    (HistoryByMarker(elem) \/ HistoryByHeaders(elem))

----------------------------------------------------------------------------
(* The basic ConfluenceConverter (src/utils/converter.ts): processContent  *)
(* on a main content that holds one table with tables nested in its cells. *)
(* turndown replaces a node by processing its children first and calling   *)
(* the replacement of its rule on their output behind that; the call stack *)
(* holds a frame "process" for a table whose replacement is being made and *)
(* a frame "replacement" for a replacement of the table rule that is       *)
(* waiting for a turndown call of its own.                                 *)

\* the deepest nesting of tables
MaxDepth == 4

\* the frames the call stack holds; one more is a RangeError
StackLimit == 12

\* the values of options.tableStyle, "other" for one outside the type
TableStyles == {"github", "simple", "html", "other"}

\* replacementForNode on the table of the nesting level; done when the
\* tables nested in it have been replaced
Process(level, depth) == [kind |-> "process", level |-> level, done |-> level = depth]

\* the replacement of the table rule on the table of the level
Replacement(level) == [kind |-> "replacement", level |-> level, done |-> FALSE]

InitBasic ==
  /\ elem = NoElem
  /\ variant = 1
  /\ options = NoOptions
  /\ tableSeen = {}
  /\ panelSeen = {}
  /\ out = <<>>
  /\ last = NoCall
  /\ emitted = <<>>
  /\ invoked = {}
  /\ html = NoHtml
  /\ convSeen = {}
  /\ result = NoResult
  /\ input = <<>>
  /\ output = <<>>
  /\ passes = 0
  /\ calls = 0
  /\ editorState = Unmounted
  /\ \E s \in TableStyles, d \in 1..MaxDepth :
       basicState = [status |-> "ready", tableStyle |-> s, depth |-> d,
                     stack |-> <<>>, invocations |-> 0]

BasicIdle ==
  UNCHANGED <<elem, variant, options, tableSeen, panelSeen, out, last, emitted,
              invoked, html, convSeen, result, input, output, passes, calls,
              editorState>>

Top(stack) == stack[Len(stack)]

Pop(stack) == SubSeq(stack, 1, Len(stack) - 1)

\* the stack when the frame on top has returned: the frame below has its
\* nested table replaced
afterReturn(stack) ==
  IF Len(stack) = 1 THEN <<>>
  ELSE [Pop(stack) EXCEPT ![Len(stack) - 1].done = TRUE]

\* processContent: this.turndown.turndown(element.innerHTML)
BasicProcessContent ==
  /\ basicState.status = "ready"
  /\ basicState' = [basicState EXCEPT !.status = "running",
                                      !.stack = <<Process(1, basicState.depth)>>]
  /\ BasicIdle

\* turndown goes down to the table nested in the table on top
Descend ==
  /\ basicState.status = "running"
  /\ basicState.stack # <<>>
  /\ Top(basicState.stack).kind = "process"
  /\ ~Top(basicState.stack).done
  /\ Len(basicState.stack) < StackLimit
  /\ basicState' =
       [basicState EXCEPT
          !.stack = Append(@, Process(Top(basicState.stack).level + 1, basicState.depth))]
  /\ BasicIdle

\* the table rule with tableStyle 'github':
\* return this.turndown.turndown(element.outerHTML), which finds the table
\* again in the tree it makes of the string
ReplaceGithub ==
  /\ basicState.status = "running"
  /\ basicState.stack # <<>>
  /\ Top(basicState.stack).kind = "process"
  /\ Top(basicState.stack).done
  /\ basicState.tableStyle = "github"
  /\ Len(basicState.stack) < StackLimit
  /\ basicState' =
       [basicState EXCEPT
          !.invocations = @ + 1,
          !.stack = Pop(@) \o <<Replacement(Top(basicState.stack).level),
                                Process(Top(basicState.stack).level, basicState.depth)>>]
  /\ BasicIdle

\* the table rule with another tableStyle: the replacement is made of the
\* content and of the element
ReplaceOther ==
  /\ basicState.status = "running"
  /\ basicState.stack # <<>>
  /\ Top(basicState.stack).kind = "process"
  /\ Top(basicState.stack).done
  /\ basicState.tableStyle # "github"
  /\ basicState' = [basicState EXCEPT !.invocations = @ + 1,
                                      !.stack = afterReturn(@)]
  /\ BasicIdle

\* the call stack is full: the RangeError reaches the catch of
\* processContent, which returns element.textContent
BasicCaught ==
  /\ basicState.status = "running"
  /\ Len(basicState.stack) = StackLimit
  /\ basicState' = [basicState EXCEPT !.status = "caught", !.stack = <<>>]
  /\ BasicIdle

\* turndown returns the markdown
BasicReturn ==
  /\ basicState.status = "running"
  /\ basicState.stack = <<>>
  /\ basicState' = [basicState EXCEPT !.status = "returned"]
  /\ BasicIdle

NextBasic ==
  \/ BasicProcessContent
  \/ Descend
  \/ ReplaceGithub
  \/ ReplaceOther
  \/ BasicCaught
  \/ BasicReturn

SpecBasic == InitBasic /\ [][NextBasic]_vars

\* the replacements of the table rule that are on the call stack
ActiveReplacements ==
  {i \in 1..Len(basicState.stack) : basicState.stack[i].kind = "replacement"}

\* C28: with tableStyle 'github' the table rule does not enter the same
\* table again: the replacements of the table rule that are nested in one
\* another, and those made in all, are no more than the table has levels.
C28_BoundedReentry ==
  (basicState.status # "none" /\ basicState.tableStyle = "github") =>
    /\ Cardinality(ActiveReplacements) <= basicState.depth
    /\ basicState.invocations <= basicState.depth

\* the frontmatter block convert puts before the markdown of the document
Frontmatter ==
  generateFrontmatter(extractMetadata(html.document, options), options)

\* C29: the returned markdown begins with the frontmatter block as
\* generateFrontmatter has written it: cleanupMarkdown changes nothing in
\* it and puts no blank line before its closing ---.
C29_FrontmatterKept ==
  (result.kind = "ok" /\ Frontmatter # <<>>) =>
    StartsAt(result.markdown, 1, Frontmatter)

\* C30: the HtmlParser of the batch Converter works with the options given
\* to the Converter: with includeBreadcrumbs on, processDirectory gets the
\* breadcrumbs extractBreadcrumbs finds with that option and places the
\* file by them; with includeAttachments on, processFile gets the
\* attachments extractAttachmentInfo finds with that option and copies them
\* unless attachmentOption is 'hidden'
C30_OptionsApplied ==
  /\ (output.op = "Converter.processDirectory" /\ options.includeBreadcrumbs) =>
       /\ output.breadcrumbs = parserExtractBreadcrumbs(input, options)
       /\ output.outputPath = outputPath(parserExtractBreadcrumbs(input, options))
  /\ (output.op = "Converter.processFile" /\ options.includeAttachments) =>
       /\ DOMAIN output.attachments = DOMAIN extractAttachmentInfo(input, options)
       /\ output.copied = (/\ DOMAIN extractAttachmentInfo(input, options) # {}
                           /\ output.attachmentOption # "hidden")

====
